---- MODULE Spec2Model ----
(***************************************************************************)
(* Model of the tradedeck control plane: the risk engine under the         *)
(* PostgreSQL advisory lock, the DB-persisted circuit breaker, the         *)
(* strategy executor (tick dispatch + control loop) and the intent/ack     *)
(* control service.                                                        *)
(*                                                                         *)
(* The specifications of the module share its variables:                  *)
(*   SpecRisk     risk_engine.py + locking.py + the order path of          *)
(*                strategy_executor.py (_update_metrics)                   *)
(*   SpecBreaker  circuit_breaker.py driven by a caller whose errors       *)
(*                propagate through the context manager                    *)
(*   SpecProbe    circuit_breaker.py under concurrent callers              *)
(*   SpecKill     the kill switch of risk_engine.py under concurrent       *)
(*                triggers, with its audit trail                           *)
(*   SpecRecon    workers/reconciliation.py                                *)
(*   SpecExec     strategy_executor.py (on_tick, _control_loop) and        *)
(*                strategy_control.py (send_intent); SpecExecLive adds     *)
(*                the fairness of the control loop                         *)
(*   SpecIntent   send_intent by two operators on one strategy             *)
(*   SpecSignal   the signal test of _update_metrics                       *)
(*   SpecAck      the executor's tasks (on_tick, _control_loop,            *)
(*                _auto_restart) interleaved at their awaits;              *)
(*                SpecCacheLive adds failing flushes and commits and the   *)
(*                fairness of the tasks                                    *)
(*   SpecFeed     feed_worker.py: connection, reconnect and backoff        *)
(*   SpecTicks    the per-tick tasks of feed_worker.py and on_tick         *)
(***************************************************************************)
EXTENDS Integers, Sequences, FiniteSets, TLC

VARIABLES
    \* ---- durable store -------------------------------------------------
    sess,          \* trading_sessions rows: session id -> row
    positions,     \* positions rows: session id -> symbol -> net_quantity
    orders,        \* orders rows, each with the transaction that has not yet
                   \* committed it
    cbFunds,       \* circuit_breaker_states row of the funds service
    cbRow,         \* that row's existence ("absent", "pending", "committed") and
                   \* the transaction holding its row lock
    advLock,       \* pg advisory xact lock: session id -> holding transaction
    rowLock,       \* trading_sessions row lock: session id -> holding transaction
    \* ---- one executor transaction per worker ---------------------------
    pc,            \* position of each worker in validate_order / _update_metrics
    req,           \* the arguments of the validation in progress
    lockedRow,     \* the row returned by lock_session_row (SELECT .. FOR UPDATE)
    funds,         \* what broker.get_funds() answered (got: "none", "raise" or "funds")
    trace,         \* the checks _evaluate has run, in order
    result,        \* RiskCheckResult of the last validation
    \* ---- history variables ---------------------------------------------
    killedDuring,  \* is_killed of the session turned true during this evaluation
                   \* and has not been reset since
    backendCalls,  \* broker calls made by this validation: funds, quote, submit
    \* ---- circuit breaker under a generic caller (SpecBreaker) ------------
    cb,            \* circuit_breaker_states row of the service under test
    cbCall,        \* the call() in flight: "none" or [allowed, now]
    clock,         \* wall clock, seconds
    cbHist,        \* history: consecutive failed calls, last call's outcome
    probe,         \* the call() of each of several concurrent callers, each in
                   \* a transaction of its own (SpecProbe)
    \* ---- strategy executor and control service (SpecExec) ----------------
    strat,         \* strategy_states rows: name -> row
    statusCache,   \* StrategyExecutor._status_cache
    tick,          \* the on_tick dispatch in flight
    sender,        \* each send_intent caller: position, arguments, return value
    xclock,        \* clock of the control plane
    restarts,      \* the _auto_restart tasks scheduled and not yet run, per strategy
    \* ---- the control log and the schema it was created by ---------------
    ctlLog,        \* strategy_control_log rows, in id order
    appendOnly,    \* the schema carries the append-only triggers of the
                   \* migrations (TRUE), or was made by create_all (FALSE)
    \* ---- reconciliation worker (SpecRecon) -------------------------------
    broker,        \* the broker's books: positions per symbol, orders per id
    posMark,       \* positions.reconcile_status: session id -> symbol -> mark
    recon,         \* the latest reconciliation_logs row, with history: the
                   \* cycles run, whether the broker's books and the local rows
                   \* are as the last cycle left them, the cycles in a row
                   \* during which the broker could not be reached
    \* ---- signals and the orders they cause (SpecSignal) -----------------
    prevSignals,   \* StrategyExecutor._prev_signals: name -> signal
    emitted,       \* history: the signal each strategy emitted last, and the
                   \* kind of its latest change of signal
    riskCalls,     \* history: the validate_order calls made for each strategy
                   \* since its latest change of signal
    \* ---- kill-switch triggers and the audit trail (SpecKill) ------------
    trig,          \* each caller of _trigger_kill_switch, in a transaction of
                   \* its own: position, arguments, what the UPDATE returned
    audit,         \* audit_logs rows of the kill switch, in insertion order
    \* ---- the executor's tasks between their awaits (SpecAck) -------------
    ctl,           \* the round of _control_loop in progress: position, the
                   \* intents still to apply, the rows its session has changed
                   \* and flushed; history: the acknowledgements committed
                   \* since the latest dispatch
    app,           \* on_tick after the gather: the names zipped with the
                   \* results, the next pair, the rows its session has changed
    \* ---- feed worker (SpecFeed) ----------------------------------------
    feed,          \* FeedWorker._run: connection, backoff index, counters,
                   \* the cache key and feed_heartbeat row; history: the waits
    ticks          \* the per-tick tasks, the tick buffer of the symbol and,
                   \* as history, the callback invocations in order

riskVars == <<sess, positions, orders, cbFunds, cbRow, advLock, rowLock, pc, req,
              lockedRow, funds, trace, result, killedDuring, backendCalls>>
brkVars  == <<cb, cbCall, clock, cbHist, probe>>
logVars  == <<ctlLog, appendOnly>>
reconVars == <<broker, posMark, recon>>
sigVars  == <<prevSignals, emitted, riskCalls>>
killVars == <<trig, audit>>
ackVars  == <<ctl, app>>
feedVars == <<feed, ticks>>
execVars == <<strat, statusCache, tick, sender, xclock, restarts, logVars, reconVars,
              sigVars, killVars, ackVars, feedVars>>
vars     == <<riskVars, brkVars, execVars>>

-----------------------------------------------------------------------------
(* Circuit breaker: core/circuit_breaker.py                                *)

NoTime == -1

\* BrokerCircuitBreakers.funds
FundsFailureThreshold == 5
FundsCooldownSeconds  == 60
FundsSuccessThreshold == 2
FundsBreaker == [failure_threshold |-> FundsFailureThreshold,
                 cooldown_seconds  |-> FundsCooldownSeconds,
                 success_threshold |-> FundsSuccessThreshold]

\* BrokerCircuitBreakers.orders
OrdersFailureThreshold == 3
OrdersCooldownSeconds  == 30
OrdersSuccessThreshold == 2
OrdersBreaker == [failure_threshold |-> OrdersFailureThreshold,
                  cooldown_seconds  |-> OrdersCooldownSeconds,
                  success_threshold |-> OrdersSuccessThreshold]

\* _get_or_create_state: the initial CLOSED row
CBClosedRow == [state |-> "CLOSED", failure_count |-> 0, success_count |-> 0,
                opened_at |-> NoTime, next_attempt_at |-> NoTime]

\* The same load, but a failed SELECT answers with a CLOSED object that is not
\* bound to any row
get_or_create_state_detached(row, rd) ==
    IF rd.select = "ok"
    THEN [raised |-> FALSE, state |-> row]
    ELSE [raised |-> FALSE, state |-> CBClosedRow]

\* _get_or_create_state while the row of the service exists. The SELECT's
\* exception is logged and the method goes on to INSERT a CLOSED row; the
\* unique constraint on service_name refuses it. Only IntegrityError is caught:
\* the session is rolled back and the row is selected again. Every other
\* exception leaves the method.
get_or_create_state(row, rd) ==
    IF rd.select = "ok"
    THEN [raised |-> FALSE, state |-> row]
    ELSE IF rd.flush = "integrity_error" /\ rd.refetch = "ok"
         THEN [raised |-> FALSE, state |-> row]
         ELSE [raised |-> TRUE, state |-> row]

\* call() with the cooldown test of the OPEN branch left out
cb_call_ignoring_cooldown(st, now) ==
    IF st.state = "OPEN"
    THEN [allowed |-> TRUE,
          st |-> [st EXCEPT !.state = "HALF_OPEN", !.success_count = 0]]
    ELSE [allowed |-> TRUE, st |-> st]

\* call(), up to its yield: whether the call is allowed and the row after the
\* OPEN -> HALF_OPEN transition
cb_call(st, now) ==
    IF st.state = "CLOSED" THEN [allowed |-> TRUE, st |-> st]
    ELSE IF st.state = "OPEN" THEN
        IF st.next_attempt_at # NoTime /\ now >= st.next_attempt_at
        THEN [allowed |-> TRUE,
              st |-> [st EXCEPT !.state = "HALF_OPEN", !.success_count = 0]]
        ELSE [allowed |-> FALSE, st |-> st]
    ELSE [allowed |-> TRUE, st |-> st]

\* _record_outcome without the reset of the failure count by a success in CLOSED
record_outcome_keeping_failures(cfg, st, success, now) ==
    IF success THEN
        IF st.state = "HALF_OPEN" THEN
            IF st.success_count + 1 >= cfg.success_threshold
            THEN [st EXCEPT !.state = "CLOSED", !.failure_count = 0,
                            !.success_count = 0, !.opened_at = NoTime,
                            !.next_attempt_at = NoTime]
            ELSE [st EXCEPT !.success_count = st.success_count + 1]
        ELSE st
    ELSE
        IF st.state = "HALF_OPEN" THEN
            [st EXCEPT !.failure_count = st.failure_count + 1,
                       !.state = "OPEN", !.opened_at = now,
                       !.next_attempt_at = now + cfg.cooldown_seconds,
                       !.success_count = 0]
        ELSE IF st.state = "CLOSED" /\ st.failure_count + 1 >= cfg.failure_threshold
        THEN [st EXCEPT !.failure_count = st.failure_count + 1,
                        !.state = "OPEN", !.opened_at = now,
                        !.next_attempt_at = now + cfg.cooldown_seconds]
        ELSE [st EXCEPT !.failure_count = st.failure_count + 1]

\* _record_outcome
record_outcome(cfg, st, success, now) ==
    IF success THEN
        IF st.state = "HALF_OPEN" THEN
            IF st.success_count + 1 >= cfg.success_threshold
            THEN [st EXCEPT !.state = "CLOSED", !.failure_count = 0,
                            !.success_count = 0, !.opened_at = NoTime,
                            !.next_attempt_at = NoTime]
            ELSE [st EXCEPT !.success_count = st.success_count + 1]
        ELSE IF st.state = "CLOSED" /\ st.failure_count > 0
        THEN [st EXCEPT !.failure_count = 0]
        ELSE st
    ELSE
        IF st.state = "HALF_OPEN" THEN
            [st EXCEPT !.failure_count = st.failure_count + 1,
                       !.state = "OPEN", !.opened_at = now,
                       !.next_attempt_at = now + cfg.cooldown_seconds,
                       !.success_count = 0]
        ELSE IF st.state = "CLOSED" /\ st.failure_count + 1 >= cfg.failure_threshold
        THEN [st EXCEPT !.failure_count = st.failure_count + 1,
                        !.state = "OPEN", !.opened_at = now,
                        !.next_attempt_at = now + cfg.cooldown_seconds]
        ELSE [st EXCEPT !.failure_count = st.failure_count + 1]

-----------------------------------------------------------------------------
(* Risk engine: services/risk_engine.py, core/locking.py, and the order    *)
(* path of workers/strategy_executor.py                                    *)

Sessions == {"s1", "s2"}
Workers  == {"w1", "w2"}
Keys     == {"K-001", "K-002"}
Symbols  == {"NIFTY_CE"}
NoTx     == "none"

\* models/db.py TradingSession column defaults
MaxDailyLoss      == 10000
MaxMarginUsagePct == 80
MaxLotSize        == 5
\* risk_engine.py: lot_size = 50 ("TODO: fetch from symbol master")
LotSize           == 50
\* risk_engine.py: est_margin = quantity * est_price * 0.15, as a percentage
MarginFactorPct   == 15
\* risk_engine.py _safe_ltp: the fallback price when the quote is unavailable
DefaultLtp        == 100

\* The sessions' max_open_orders as configured for the day (column default 10),
\* kept small so that the positions of the model reach it
ConfiguredMaxOpenOrders == 1

\* Inputs of a validation. Session "s1" is driven with every input, the second
\* session with the inputs of an acceptable order only.
Quantities(s)   == IF s = "s1" THEN {50, 300} ELSE {50}
Prices(s)       == IF s = "s1" THEN {0, 150} ELSE {150}   \* 0: price is None
\* broker.get_quote() raising
QuoteRaises     == -1
QuoteAnswers    == {QuoteRaises, 150}
FundsAnswers(s) ==
    IF s = "s1"
    THEN { [got |-> "funds", available_margin |-> 50000, used_margin |-> 20000],
           [got |-> "funds", available_margin |-> 500,   used_margin |-> 100],
           \* used / total exactly at the session's 80 per cent
           [got |-> "funds", available_margin |-> 2000,  used_margin |-> 8000],
           [got |-> "funds", available_margin |-> 0,     used_margin |-> 0] }
    ELSE { [got |-> "funds", available_margin |-> 50000, used_margin |-> 20000] }
\* broker.get_funds() raising, and the funds of a validation that has not asked
GetFundsRaises == [got |-> "raise", available_margin |-> 0, used_margin |-> 0]
NoFunds        == [got |-> "none",  available_margin |-> 0, used_margin |-> 0]
KeysOf(s)         == IF s = "s1" THEN Keys ELSE {"K-001"}
SubmitAnswers(k)  == IF k = "K-001" THEN {"ok", "rejected", "exception"} ELSE {"ok"}
PnlDeltas(s)      == IF s = "s1" THEN {-9500, 9500} ELSE {}
\* the sessions an operator kills and revives
Operated          == {"s1"}
RealizedRange     == {-9500, 0}
StartOfDay        == { [unrealized |-> 0,    open |-> 0],
                       [unrealized |-> -600, open |-> 0],
                       [unrealized |-> 0,    open |-> 50] }

AllChecks == << "KILL_SWITCH", "IDEMPOTENCY", "LIVE_MARGIN", "MARGIN_PCT",
                "DAILY_LOSS", "MAX_POSITIONS", "LOT_SIZE", "AVAILABLE_MARGIN",
                "KILL_SWITCH_RECHECK" >>

NoResult == [approved |-> FALSE, code |-> "NONE"]
Reject(c) == [approved |-> FALSE, code |-> c]
Approved == [approved |-> TRUE, code |-> "OK"]
\* seen: history, the status of the orders row with this key that the
\* transaction could read when the validation started ("NONE": no row)
NoReq    == [session |-> "none", key |-> "none", quantity |-> 0, price |-> 0,
             ltp |-> 0, quote_failed |-> FALSE, seen |-> "NONE"]
NoCalls  == [funds |-> 0, quote |-> 0, submit |-> 0]

\* A trading_sessions row of a new day with unrealized P&L u. kill_tx is the
\* transaction whose UPDATE of is_killed is not yet committed.
SessionRow(u) ==
    [is_killed |-> FALSE, kill_reason |-> "NULL", kill_tx |-> NoTx,
     kill_time |-> NoTime, killed_by |-> "NULL",
     realized_pnl |-> 0, unrealized_pnl |-> u,
     max_daily_loss |-> MaxDailyLoss, max_open_orders |-> ConfiguredMaxOpenOrders,
     max_lot_size |-> MaxLotSize, max_margin_usage_pct |-> MaxMarginUsagePct,
     reconcile_failure_count |-> 0, last_reconcile_status |-> "NULL"]

NoRow == SessionRow(0)

\* pg_try_advisory_xact_lock taken as granted whoever holds the key
pg_try_advisory_xact_lock_granted(w, s) == TRUE

\* acquire_risk_lock: pg_try_advisory_xact_lock is non-blocking and re-entrant
\* within the transaction that already holds the key
pg_try_advisory_xact_lock(w, s) == advLock[s] \in {NoTx, w}

\* A row of trading_sessions locked by SELECT .. FOR UPDATE or by an UPDATE
\* makes every other transaction's FOR UPDATE and UPDATE wait for the holder's end
row_free(w, s) == rowLock[s] \in {NoTx, w}

\* is_killed as transaction w reads it (READ COMMITTED: its own writes and
\* what is committed)
is_killed_for(rows, s, w) == rows[s].is_killed /\ rows[s].kill_tx \in {NoTx, w}

\* lock_session_row: SELECT ... FOR UPDATE returns the current row
lock_session_row(s) == sess[s]

\* _evaluate step 1
kill_switch_check(row) == row.is_killed

\* the orders rows with key k that transaction w can read
visible_orders(w, k) == {o \in orders : o.key = k /\ o.tx \in {NoTx, w}}

\* history: the status of the row with key k that w can read ("NONE": no row)
seen_status(w, k) ==
    IF visible_orders(w, k) = {} THEN "NONE"
    ELSE (CHOOSE o \in visible_orders(w, k) : TRUE).status

\* _evaluate without its step 2
idempotency_check_skipped(w, k) == FALSE

\* _evaluate step 2: SELECT id FROM orders WHERE idempotency_key = :key
idempotency_check(w, k) == visible_orders(w, k) # {}

\* the orders table without its unique constraint on idempotency_key
uq_order_idempotency_dropped(k) == TRUE

\* Order.__table_args__ uq_order_idempotency: whether a row with key k can be
\* inserted
uq_order_idempotency(k) == \A o \in orders : o.key # k

\* _evaluate step 3: whether an error leaves the "async with" body, which is what
\* makes call() record a failure. The except clause inside the body turns a
\* raising get_funds() into a return, so call() resumes after its yield and
\* sets success = True whatever the answer was.
funds_error_propagates(answer) == FALSE

\* total_margin = available_margin + used_margin or 1
total_margin(f) == IF f.available_margin + f.used_margin = 0 THEN 1
                   ELSE f.available_margin + f.used_margin

\* _evaluate step 4 with the limit itself still allowed
margin_breach_above(row, f) == f.used_margin * 100 > row.max_margin_usage_pct * total_margin(f)

\* _evaluate step 4: margin_pct >= max_margin_pct, margin_pct = used/total*100
margin_breach(row, f) == f.used_margin * 100 >= row.max_margin_usage_pct * total_margin(f)

\* _evaluate step 5: day_pnl < -abs(max_loss)
Abs(x) == IF x < 0 THEN -x ELSE x
daily_loss_breach(row) == row.realized_pnl + row.unrealized_pnl < -Abs(row.max_daily_loss)

\* _evaluate step 6: COUNT(*) FROM positions WHERE net_quantity != 0
open_count(s) == Cardinality({y \in Symbols : positions[s][y] # 0})
max_positions_reached(row, s) == open_count(s) >= row.max_open_orders

\* _evaluate step 7: quantity / lot_size > max_lots
lot_size_exceeded(row, q) == q > row.max_lot_size * LotSize

\* _safe_ltp: the quote's ltp, or the fallback price when get_quote raised
safe_ltp(quote) == IF quote = QuoteRaises THEN DefaultLtp ELSE quote

\* _evaluate step 8: est_price = price if price else _safe_ltp(symbol)
est_price(r) == IF r.price # 0 THEN r.price ELSE r.ltp
insufficient_margin(r, f) ==
    r.quantity * est_price(r) * MarginFactorPct > f.available_margin * 100

\* _evaluate without its step 9
kill_switch_recheck_skipped(w, s) == FALSE

\* _evaluate step 9: SELECT is_killed FROM trading_sessions WHERE id = :id
kill_switch_recheck(w, s) == is_killed_for(sess, s, w)

\* _trigger_kill_switch without its UPDATE
trigger_kill_switch_dropped(rows, s, reason, tx) == rows

\* the UPDATE of _trigger_kill_switch without "AND is_killed=false"
kill_update_unconditional(rows, s, reason, actor, now, tx) ==
    [rows EXCEPT ![s].is_killed = TRUE, ![s].kill_reason = reason,
                 ![s].kill_time = now, ![s].killed_by = actor,
                 ![s].kill_tx = tx]

\* the UPDATE of _trigger_kill_switch by transaction tx: UPDATE .. SET
\* is_killed=true, kill_reason, kill_time=NOW(), killed_by WHERE id=:id AND
\* is_killed=false
kill_update(rows, s, reason, actor, now, tx) ==
    IF rows[s].is_killed THEN rows
    ELSE [rows EXCEPT ![s].is_killed = TRUE, ![s].kill_reason = reason,
                      ![s].kill_time = now, ![s].killed_by = actor,
                      ![s].kill_tx = tx]

\* RETURNING id of that UPDATE: whether a row was changed
kill_update_returns(rows, s) == ~rows[s].is_killed

\* the actor of a trigger: trigger_kill_switch_manual passes its caller's
\* name, every other caller leaves the default
SystemActor == "SYSTEM"
Operator    == "operator"
actor_of(reason) == IF reason = "MANUAL" THEN Operator ELSE SystemActor

\* _trigger_kill_switch by transaction tx (NoTx: a transaction of its own,
\* committed at once)
trigger_kill_switch(rows, s, reason, tx) ==
    kill_update(rows, s, reason, actor_of(reason), clock, tx)

\* _evaluate with the lot-size check moved before the open-positions check
checks_after_funds_reordered(w, r, row, f) ==
    IF margin_breach(row, f) THEN
        [code |-> "MARGIN_LIMIT_BREACH", n |-> 4, kill |-> "MARGIN_BREACH"]
    ELSE IF daily_loss_breach(row) THEN
        [code |-> "DAILY_LOSS_BREACH", n |-> 5, kill |-> "DAILY_LOSS_BREACH"]
    ELSE IF lot_size_exceeded(row, r.quantity) THEN
        [code |-> "LOT_SIZE_EXCEEDED", n |-> 7, kill |-> "NONE"]
    ELSE IF max_positions_reached(row, r.session) THEN
        [code |-> "MAX_POSITIONS_REACHED", n |-> 6, kill |-> "NONE"]
    ELSE IF insufficient_margin(r, f) THEN
        [code |-> "INSUFFICIENT_MARGIN", n |-> 8, kill |-> "NONE"]
    ELSE IF kill_switch_recheck(w, r.session) THEN
        [code |-> "KILL_SWITCH_ACTIVE", n |-> 9, kill |-> "NONE"]
    ELSE [code |-> "OK", n |-> 9, kill |-> "NONE"]

\* _evaluate steps 4..9 on the fetched funds: the first failing check
checks_after_funds(w, r, row, f) ==
    IF margin_breach(row, f) THEN
        [code |-> "MARGIN_LIMIT_BREACH", n |-> 4, kill |-> "MARGIN_BREACH"]
    ELSE IF daily_loss_breach(row) THEN
        [code |-> "DAILY_LOSS_BREACH", n |-> 5, kill |-> "DAILY_LOSS_BREACH"]
    ELSE IF max_positions_reached(row, r.session) THEN
        [code |-> "MAX_POSITIONS_REACHED", n |-> 6, kill |-> "NONE"]
    ELSE IF lot_size_exceeded(row, r.quantity) THEN
        [code |-> "LOT_SIZE_EXCEEDED", n |-> 7, kill |-> "NONE"]
    ELSE IF insufficient_margin(r, f) THEN
        [code |-> "INSUFFICIENT_MARGIN", n |-> 8, kill |-> "NONE"]
    ELSE IF kill_switch_recheck(w, r.session) THEN
        [code |-> "KILL_SWITCH_ACTIVE", n |-> 9, kill |-> "NONE"]
    ELSE [code |-> "OK", n |-> 9, kill |-> "NONE"]

Prefix(n) == SubSeq(AllChecks, 1, n)

\* history: is_killed of its session turns true, as transaction v reads it,
\* between rows and rows2 while v is inside _evaluate
NoteKill(rows2) ==
    [v \in Workers |->
        killedDuring[v] \/ ( /\ pc[v] \in {"funds", "cbwait"}
                             /\ ~is_killed_for(sess, req[v].session, v)
                             /\ is_killed_for(rows2, req[v].session, v) )]

\* The end of transaction w: what becomes of the rows it wrote and the locks
\* it held
release(locks, w) == [s \in Sessions |-> IF locks[s] = w THEN NoTx ELSE locks[s]]
commit_orders(w)   == {[o EXCEPT !.tx = IF o.tx = w THEN NoTx ELSE o.tx] : o \in orders}
rollback_orders(w) == {o \in orders : o.tx # w}
commit_kills(w) ==
    [s \in Sessions |-> IF sess[s].kill_tx = w
                        THEN [sess[s] EXCEPT !.kill_tx = NoTx] ELSE sess[s]]
rollback_kills(w) ==
    [s \in Sessions |-> IF sess[s].kill_tx = w
                        THEN [sess[s] EXCEPT !.is_killed = FALSE,
                                   !.kill_reason = "NULL", !.kill_tx = NoTx,
                                   !.kill_time = NoTime, !.killed_by = "NULL"]
                        ELSE sess[s]]
commit_cb_row(w) ==
    IF cbRow.lock = w THEN [exists |-> "committed", lock |-> NoTx] ELSE cbRow
rollback_cb_row(w) ==
    IF cbRow.lock = w
    THEN [exists |-> IF cbRow.exists = "pending" THEN "absent" ELSE cbRow.exists,
          lock |-> NoTx]
    ELSE cbRow

\* validate_order up to the broker funds call: the advisory lock, the row lock
\* (which waits while another transaction holds the row), then _evaluate steps
\* 1 and 2
ValidateEnter(w, s, k) ==
    /\ pc[w] \in {"idle", "intx"}
    /\ pc[w] = "intx" => s = req[w].session
    /\ req' = [req EXCEPT ![w] = [NoReq EXCEPT !.session = s, !.key = k,
                                                !.seen = seen_status(w, k)]]
    /\ funds' = [funds EXCEPT ![w] = NoFunds]
    /\ backendCalls' = [backendCalls EXCEPT ![w] = NoCalls]
    /\ killedDuring' = [killedDuring EXCEPT ![w] = FALSE]
    /\ IF ~pg_try_advisory_xact_lock(w, s) THEN
            /\ result' = [result EXCEPT ![w] = Reject("LOCK_TIMEOUT")]
            /\ trace' = [trace EXCEPT ![w] = <<>>]
            /\ pc' = [pc EXCEPT ![w] = "intx"]
            /\ lockedRow' = [lockedRow EXCEPT ![w] = NoRow]
            /\ UNCHANGED <<advLock, rowLock>>
       ELSE
            /\ row_free(w, s)
            /\ advLock' = [advLock EXCEPT ![s] = w]
            /\ rowLock' = [rowLock EXCEPT ![s] = w]
            /\ lockedRow' = [lockedRow EXCEPT ![w] = lock_session_row(s)]
            /\ IF kill_switch_check(lock_session_row(s)) THEN
                    /\ result' = [result EXCEPT ![w] = Reject("KILL_SWITCH_ACTIVE")]
                    /\ trace' = [trace EXCEPT ![w] = Prefix(1)]
                    /\ pc' = [pc EXCEPT ![w] = "intx"]
               ELSE IF idempotency_check(w, k) THEN
                    /\ result' = [result EXCEPT ![w] = Reject("DUPLICATE_ORDER")]
                    /\ trace' = [trace EXCEPT ![w] = Prefix(2)]
                    /\ pc' = [pc EXCEPT ![w] = "intx"]
               ELSE
                    /\ result' = [result EXCEPT ![w] = NoResult]
                    /\ trace' = [trace EXCEPT ![w] = Prefix(2)]
                    /\ pc' = [pc EXCEPT ![w] = "funds"]
    /\ UNCHANGED <<sess, positions, orders, cbFunds, cbRow>>
    /\ UNCHANGED <<brkVars, execVars>>

\* _get_or_create_state inside step 3: the SELECT finds no row because the
\* INSERT of another transaction is not committed, and this transaction's own
\* INSERT waits on the unique index uq_cb_service
CbInsertWait(w) ==
    /\ pc[w] = "funds"
    /\ cbRow.exists = "pending" /\ cbRow.lock # w
    /\ pc' = [pc EXCEPT ![w] = "cbwait"]
    /\ UNCHANGED <<sess, positions, orders, cbFunds, cbRow, advLock, rowLock, req,
                   lockedRow, funds, trace, result, killedDuring, backendCalls>>
    /\ UNCHANGED <<brkVars, execVars>>

\* _get_or_create_state: the other transaction has ended. If it committed,
\* flush() raises IntegrityError and the handler runs db.rollback(), which ends
\* this transaction (its advisory lock and row locks go with it) before the row
\* is fetched again and _evaluate goes on.
CbInsertResolve(w) ==
    /\ pc[w] = "cbwait"
    /\ cbRow.exists # "pending"
    /\ pc' = [pc EXCEPT ![w] = "funds"]
    /\ IF cbRow.exists = "committed"
       THEN /\ advLock' = release(advLock, w)
            /\ rowLock' = release(rowLock, w)
            /\ orders' = rollback_orders(w)
            /\ sess' = rollback_kills(w)
       ELSE UNCHANGED <<advLock, rowLock, orders, sess>>
    /\ killedDuring' = NoteKill(sess')
    /\ UNCHANGED <<positions, cbFunds, cbRow, req, lockedRow, funds, trace, result,
                   backendCalls>>
    /\ UNCHANGED <<brkVars, execVars>>

\* _evaluate steps 3..9. answer is what broker.get_funds() does (it raises or
\* returns funds), q and p the order's quantity and price (0: none), quote what
\* broker.get_quote() does (it raises or returns a price). An argument is recorded
\* once a check has read it. _record_outcome always writes the breaker row
\* (updated_at), which takes the row's lock until the transaction ends.
EvalFunds(w, answer, q, p, quote) ==
    /\ pc[w] = "funds"
    /\ cbRow.exists = "pending" => cbRow.lock = w
    /\ LET gate == cb_call(cbFunds, clock) IN
       IF ~gate.allowed THEN
            \* "if not allowed": fast fail, the backend is not called
            /\ result' = [result EXCEPT ![w] = Reject("CIRCUIT_OPEN_FUNDS")]
            /\ trace' = [trace EXCEPT ![w] = Prefix(3)]
            /\ pc' = [pc EXCEPT ![w] = "intx"]
            /\ cbRow' = IF cbRow.exists = "absent"
                        THEN [exists |-> "pending", lock |-> w] ELSE cbRow
            /\ UNCHANGED <<sess, cbFunds, rowLock, req, funds, killedDuring,
                           backendCalls>>
       ELSE
            /\ cbRow.lock \in {NoTx, w}
            /\ cbRow' = [exists |-> IF cbRow.exists = "absent" THEN "pending"
                                    ELSE cbRow.exists,
                         lock |-> w]
            /\ cbFunds' = record_outcome(FundsBreaker, gate.st,
                                         ~funds_error_propagates(answer), clock)
            /\ funds' = [funds EXCEPT ![w] = answer]
            /\ IF answer.got = "raise" THEN
                    /\ backendCalls' = [backendCalls EXCEPT ![w].funds = 1]
                    /\ result' = [result EXCEPT ![w] = Reject("MARGIN_FETCH_FAILED")]
                    /\ trace' = [trace EXCEPT ![w] = Prefix(3)]
                    /\ pc' = [pc EXCEPT ![w] = "intx"]
                    /\ UNCHANGED <<sess, rowLock, req, killedDuring>>
               ELSE
                 LET r   == [req[w] EXCEPT !.quantity = q, !.price = p,
                                          !.ltp = safe_ltp(quote)]
                     s   == r.session
                     row == lockedRow[w]
                     out == checks_after_funds(w, r, row, answer)
                     writes == out.kill # "NONE" /\ ~is_killed_for(sess, s, w)
                     rows2 == IF writes
                              THEN trigger_kill_switch(sess, s, out.kill, w)
                              ELSE sess
                     asked == out.n >= 8 /\ p = 0
                 IN /\ writes => row_free(w, s)
                    /\ rowLock' = IF writes THEN [rowLock EXCEPT ![s] = w] ELSE rowLock
                    /\ req' = [req EXCEPT ![w].quantity = IF out.n >= 7 THEN q ELSE 0,
                                          ![w].price = IF out.n >= 8 THEN p ELSE 0,
                                          ![w].ltp = IF asked THEN safe_ltp(quote)
                                                     ELSE 0,
                                          ![w].quote_failed =
                                              asked /\ quote = QuoteRaises]
                    /\ backendCalls' = [backendCalls EXCEPT ![w].funds = 1,
                                           ![w].quote = IF asked THEN 1 ELSE 0]
                    /\ sess' = rows2
                    /\ killedDuring' = NoteKill(rows2)
                    /\ trace' = [trace EXCEPT ![w] = Prefix(out.n)]
                    /\ IF out.code = "OK"
                       THEN /\ result' = [result EXCEPT ![w] = Approved]
                            /\ pc' = [pc EXCEPT ![w] = "approved"]
                       ELSE /\ result' = [result EXCEPT ![w] = Reject(out.code)]
                            /\ pc' = [pc EXCEPT ![w] = "intx"]
    /\ UNCHANGED <<positions, orders, advLock, lockedRow>>
    /\ UNCHANGED <<brkVars, execVars>>

\* The Order row as an exception of broker.submit_order would leave it if the
\* except clause did not touch the row
OrderRowLeftPending(k, s, tx, answer) ==
    [key |-> k, session |-> s, tx |-> tx,
     status |-> CASE answer = "ok" -> "ACKNOWLEDGED"
                  [] answer = "rejected" -> "REJECTED"
                  [] OTHER -> "PENDING",
     history |-> CASE answer = "ok" -> <<"ACKNOWLEDGED">>
                   [] answer = "rejected" -> <<"REJECTED">>
                   [] OTHER -> <<>>,
     broker_order_id |-> IF answer = "ok" THEN k ELSE "NULL",
     reject_reason |-> IF answer = "rejected" THEN "broker" ELSE "NULL",
     stale |-> FALSE]

\* The Order row _update_metrics leaves after broker.submit_order answered: an
\* accepted order is ACKNOWLEDGED with the broker's id, sent_at = now and a
\* status_history of one entry; a rejected one is REJECTED with one entry; an
\* exception of the call sets REJECTED and leaves status_history as the column
\* default made it (empty). reject_reason is the broker's message or the text
\* of the exception. stale: sent_at is more than 60 seconds ago.
OrderRow(k, s, tx, answer) ==
    [key |-> k, session |-> s, tx |-> tx,
     status |-> IF answer = "ok" THEN "ACKNOWLEDGED" ELSE "REJECTED",
     history |-> CASE answer = "ok" -> <<"ACKNOWLEDGED">>
                   [] answer = "rejected" -> <<"REJECTED">>
                   [] OTHER -> <<>>,
     broker_order_id |-> IF answer = "ok" THEN k ELSE "NULL",
     reject_reason |-> CASE answer = "ok" -> "NULL"
                         [] answer = "rejected" -> "broker"
                         [] OTHER -> "exception",
     stale |-> FALSE]

\* _update_metrics after an approval: the Order row (PENDING) is inserted and
\* flushed, then broker.submit_order gives the row its final status. The INSERT
\* waits while another transaction's row with the key is not committed, and
\* raises IntegrityError when a row with the key is there.
ExecutorDispatch(w, answer) ==
    /\ pc[w] = "approved"
    /\ LET k == req[w].key IN
       IF uq_order_idempotency(k)
       THEN /\ backendCalls' = [backendCalls EXCEPT ![w].submit = 1]
            /\ result' = result
            /\ pc' = [pc EXCEPT ![w] = "intx"]
            /\ orders' = orders \cup { OrderRow(k, req[w].session, w, answer) }
       ELSE /\ visible_orders(w, k) # {}
            /\ pc' = [pc EXCEPT ![w] = "failed"]
            /\ UNCHANGED <<orders, backendCalls, result>>
    /\ UNCHANGED <<sess, positions, cbFunds, cbRow, advLock, rowLock, req, lockedRow,
                   funds, trace, killedDuring>>
    /\ UNCHANGED <<brkVars, execVars>>

\* on_tick: db.commit() ends the transaction; its locks go with it
Commit(w) ==
    /\ pc[w] = "intx"
    /\ pc' = [pc EXCEPT ![w] = "idle"]
    /\ advLock' = release(advLock, w)
    /\ rowLock' = release(rowLock, w)
    /\ orders' = commit_orders(w)
    /\ sess' = commit_kills(w)
    /\ cbRow' = commit_cb_row(w)
    /\ req' = [req EXCEPT ![w] = NoReq]
    /\ lockedRow' = [lockedRow EXCEPT ![w] = NoRow]
    /\ funds' = [funds EXCEPT ![w] = NoFunds]
    /\ trace' = [trace EXCEPT ![w] = <<>>]
    /\ result' = [result EXCEPT ![w] = NoResult]
    /\ killedDuring' = [NoteKill(sess') EXCEPT ![w] = FALSE]
    /\ backendCalls' = [backendCalls EXCEPT ![w] = NoCalls]
    /\ UNCHANGED <<positions, cbFunds>>
    /\ UNCHANGED <<brkVars, execVars>>

\* on_tick: the IntegrityError leaves "async with self.session_factory()"
\* without a commit, and the session's close rolls the transaction back
Rollback(w) ==
    /\ pc[w] = "failed"
    /\ pc' = [pc EXCEPT ![w] = "idle"]
    /\ advLock' = release(advLock, w)
    /\ rowLock' = release(rowLock, w)
    /\ orders' = rollback_orders(w)
    /\ sess' = rollback_kills(w)
    /\ cbRow' = rollback_cb_row(w)
    /\ req' = [req EXCEPT ![w] = NoReq]
    /\ lockedRow' = [lockedRow EXCEPT ![w] = NoRow]
    /\ funds' = [funds EXCEPT ![w] = NoFunds]
    /\ trace' = [trace EXCEPT ![w] = <<>>]
    /\ result' = [result EXCEPT ![w] = NoResult]
    /\ killedDuring' = [killedDuring EXCEPT ![w] = FALSE]
    /\ backendCalls' = [backendCalls EXCEPT ![w] = NoCalls]
    /\ UNCHANGED <<positions, cbFunds>>
    /\ UNCHANGED <<brkVars, execVars>>

\* trigger_kill_switch_manual, from a transaction of its own
ManualKill(s) ==
    /\ rowLock[s] = NoTx
    /\ ~sess[s].is_killed
    /\ sess' = trigger_kill_switch(sess, s, "MANUAL", NoTx)
    /\ killedDuring' = NoteKill(sess')
    /\ UNCHANGED <<positions, orders, cbFunds, cbRow, advLock, rowLock, pc, req,
                   lockedRow, funds, trace, result, backendCalls>>
    /\ UNCHANGED <<brkVars, execVars>>

\* deactivate_kill_switch
DeactivateKillSwitch(s) ==
    /\ rowLock[s] = NoTx
    /\ sess[s].is_killed
    /\ sess' = [sess EXCEPT ![s].is_killed = FALSE, ![s].kill_reason = "NULL",
                             ![s].kill_time = NoTime, ![s].killed_by = "NULL"]
    /\ killedDuring' = [v \in Workers |-> killedDuring[v] /\ req[v].session # s]
    /\ UNCHANGED <<positions, orders, cbFunds, cbRow, advLock, rowLock, pc, req,
                   lockedRow, funds, trace, result, backendCalls>>
    /\ UNCHANGED <<brkVars, execVars>>

\* record_realized_pnl: the atomic increment, then the inline breach check
RecordRealizedPnl(s, delta) ==
    /\ rowLock[s] = NoTx
    /\ sess[s].realized_pnl + delta \in RealizedRange
    /\ LET rows1 == [sess EXCEPT ![s].realized_pnl = @ + delta]
       IN sess' = IF ~rows1[s].is_killed /\ daily_loss_breach(rows1[s])
                  THEN trigger_kill_switch(rows1, s, "DAILY_LOSS_BREACH", NoTx)
                  ELSE rows1
    /\ killedDuring' = NoteKill(sess')
    /\ UNCHANGED <<positions, orders, cbFunds, cbRow, advLock, rowLock, pc, req,
                   lockedRow, funds, trace, result, backendCalls>>
    /\ UNCHANGED <<brkVars, execVars>>

\* What the statements of _get_or_create_state meet while the breaker's row
\* exists: the SELECT returns the row or raises; after a failed SELECT the
\* INSERT of a fresh CLOSED row either violates uq_cb_service (IntegrityError)
\* or fails with another database error; after the rollback the second SELECT
\* returns the row or raises.
ReadsRow == [select |-> "ok", flush |-> "none", refetch |-> "none"]
StateReads ==
    { ReadsRow,
      [select |-> "error", flush |-> "db_error",        refetch |-> "none"],
      [select |-> "error", flush |-> "integrity_error", refetch |-> "ok"],
      [select |-> "error", flush |-> "integrity_error", refetch |-> "error"] }

\* no call() in flight
NoCall == [active |-> FALSE, allowed |-> FALSE, invoked |-> FALSE, now |-> NoTime,
           read |-> ReadsRow, raised |-> FALSE, entry |-> CBClosedRow]
\* history of the breaker under test: the number of consecutive failed calls,
\* the entry time of the call that tripped the breaker last, and whether the
\* process has been restarted since that trip
NoHist == [streak |-> 0, tripped_at |-> NoTime, restarted |-> FALSE]

BrkIdle == /\ cb = CBClosedRow /\ cbCall = NoCall /\ clock = 0
           /\ cbHist = NoHist /\ probe = <<>>
ExecAtRest == /\ strat = <<>> /\ statusCache = <<>> /\ tick = "none"
              /\ sender = <<>> /\ xclock = 0 /\ restarts = <<>>
LogIdle  == ctlLog = <<>> /\ appendOnly = TRUE

\* A symbol the broker reports no position for, and an order id missing from
\* the broker's order book
NoPosition == [held |-> FALSE, net_qty |-> 0, pnl |-> 0]
NoBroker   == [positions |-> [y \in Symbols |-> NoPosition],
               orders |-> [k \in Keys |-> "ABSENT"]]
\* no reconciliation_logs row yet
NoLog   == [status |-> "NONE", positions_checked |-> 0, orders_checked |-> 0,
            mismatches |-> [position |-> 0, order |-> 0],
            corrections |-> [position |-> 0, order |-> 0, orphan |-> 0],
            fetched |-> TRUE]
NoRecon == [runs |-> 0, log |-> NoLog, quiet |-> FALSE, down |-> 0]
ReconIdle == /\ broker = NoBroker
             /\ posMark = [s \in Sessions |-> [y \in Symbols |-> "PENDING"]]
             /\ recon = NoRecon
\* no strategy has emitted a signal
SignalIdle == prevSignals = <<>> /\ emitted = <<>> /\ riskCalls = <<>>
KillIdle == trig = <<>> /\ audit = <<>>
\* no round of the control loop and no tick is between awaits; no feed
AckIdle  == ctl = <<>> /\ app = <<>>
FeedIdle == feed = <<>> /\ ticks = <<>>
ExecIdle == ExecAtRest /\ LogIdle /\ ReconIdle /\ SignalIdle /\ KillIdle
            /\ AckIdle /\ FeedIdle

\* No order, no circuit_breaker_states row, no lock held and no validation in
\* progress
RiskAtRest ==
    /\ orders = {}
    /\ cbFunds = CBClosedRow
    /\ cbRow = [exists |-> "absent", lock |-> NoTx]
    /\ advLock = [s \in Sessions |-> NoTx]
    /\ rowLock = [s \in Sessions |-> NoTx]
    /\ pc = [w \in Workers |-> "idle"]
    /\ req = [w \in Workers |-> NoReq]
    /\ lockedRow = [w \in Workers |-> NoRow]
    /\ funds = [w \in Workers |-> NoFunds]
    /\ trace = [w \in Workers |-> <<>>]
    /\ result = [w \in Workers |-> NoResult]
    /\ killedDuring = [w \in Workers |-> FALSE]
    /\ backendCalls = [w \in Workers |-> NoCalls]

\* The risk engine left alone: a flat session day and nothing in progress
RiskIdle ==
    /\ sess = [s \in Sessions |-> SessionRow(0)]
    /\ positions = [s \in Sessions |-> [y \in Symbols |-> 0]]
    /\ RiskAtRest

\* A migrated database at the start of a trading day: no orders and no
\* circuit_breaker_states row yet
InitRisk ==
    /\ \E d \in StartOfDay :
          /\ sess = [s \in Sessions |-> SessionRow(IF s = "s1" THEN d.unrealized ELSE 0)]
          /\ positions = [s \in Sessions |->
                            [y \in Symbols |-> IF s = "s1" THEN d.open ELSE 0]]
    /\ RiskAtRest
    /\ BrkIdle
    /\ ExecIdle

NextRisk ==
    \/ \E w \in Workers, s \in Sessions : \E k \in KeysOf(s) : ValidateEnter(w, s, k)
    \/ \E w \in Workers : CbInsertWait(w)
    \/ \E w \in Workers : CbInsertResolve(w)
    \/ \E w \in Workers, quote \in QuoteAnswers :
          \E f \in FundsAnswers(req[w].session) \cup {GetFundsRaises},
             q \in Quantities(req[w].session), p \in Prices(req[w].session) :
                EvalFunds(w, f, q, p, quote)
    \/ \E w \in Workers : \E a \in SubmitAnswers(req[w].key) : ExecutorDispatch(w, a)
    \/ \E w \in Workers : Commit(w)
    \/ \E w \in Workers : Rollback(w)
    \/ \E s \in Operated : ManualKill(s)
    \/ \E s \in Operated : DeactivateKillSwitch(s)
    \/ \E s \in Sessions : \E d \in PnlDeltas(s) : RecordRealizedPnl(s, d)

SpecRisk == InitRisk /\ [][NextRisk]_vars

-----------------------------------------------------------------------------
(* Properties of the risk engine (SpecRisk)                                *)

\* w is inside a transaction with a validation; it has its result; the
\* result comes from _evaluate (the advisory lock was acquired)
InFlight(w) == req[w].key # "none"
Decided(w) == result[w].code # "NONE"
Evaluated(w) == Decided(w) /\ Len(trace[w]) >= 1
BreachCodes == {"MARGIN_LIMIT_BREACH", "DAILY_LOSS_BREACH"}

C4_BodiesNeverOverlap ==
    \A w1, w2 \in Workers :
        ( /\ w1 # w2
          /\ pc[w1] \in {"funds", "cbwait"} /\ pc[w2] \in {"funds", "cbwait"} ) =>
            req[w1].session # req[w2].session

\* C6, as stated: a validation whose broker funds call raised returns
\* MARGIN_FETCH_FAILED and is recorded by the funds breaker as a failure.
C6_FundsFailureRecorded ==
    \A w \in Workers :
        (result[w].code = "MARGIN_FETCH_FAILED" /\ cbRow.lock = w) =>
            \/ cbFunds.failure_count >= 1
            \/ cbFunds.state = "OPEN"

CheckFails(w, i) ==
    CASE i = 1 -> lockedRow[w].is_killed
      [] i = 2 -> req[w].seen # "NONE"
      [] i = 3 -> funds[w].got # "funds"
      [] i = 4 -> margin_breach(lockedRow[w], funds[w])
      [] i = 5 -> daily_loss_breach(lockedRow[w])
      [] i = 6 -> max_positions_reached(lockedRow[w], req[w].session)
      [] i = 7 -> lot_size_exceeded(lockedRow[w], req[w].quantity)
      [] i = 8 -> insufficient_margin(req[w], funds[w])
      [] OTHER -> result[w].code = "KILL_SWITCH_ACTIVE"

CodesOf == << {"KILL_SWITCH_ACTIVE"}, {"DUPLICATE_ORDER"},
              {"CIRCUIT_OPEN_FUNDS", "MARGIN_FETCH_FAILED"},
              {"MARGIN_LIMIT_BREACH"}, {"DAILY_LOSS_BREACH"},
              {"MAX_POSITIONS_REACHED"}, {"LOT_SIZE_EXCEEDED"},
              {"INSUFFICIENT_MARGIN"}, {"KILL_SWITCH_ACTIVE"} >>

\* C8: validate_order runs its nine checks in the fixed order; its result is
\* the code of the first failing check, no check before it fails, none after it
\* runs (no broker call behind a failure at steps 1-2, no quote behind one
\* before step 8, never a broker order), and it is approved=true only when all
\* nine checks have run and passed.
C8_FixedCheckOrder ==
    \A w \in Workers :
        Evaluated(w) =>
            LET n == Len(trace[w]) IN
            /\ trace[w] = SubSeq(AllChecks, 1, n)
            /\ \A i \in 1..(n - 1) : ~CheckFails(w, i)
            /\ IF result[w].approved
               THEN n = Len(AllChecks) /\ ~CheckFails(w, n)
               ELSE /\ CheckFails(w, n)
                    /\ result[w].code \in CodesOf[n]
                    /\ backendCalls[w].submit = 0
            /\ n < 3 => backendCalls[w] = NoCalls
            /\ n < 8 => backendCalls[w].quote = 0

\* C8 witness: an order that passes the first six checks and fails the
\* lot-size check, with no quote asked
C8_Witness ==
    \E w \in Workers :
        /\ result[w] = Reject("LOT_SIZE_EXCEEDED")
        /\ Len(trace[w]) = 7
        /\ backendCalls[w] = [funds |-> 1, quote |-> 0, submit |-> 0]

Starts(w) ==
    /\ pc[w] \in {"idle", "intx"}
    /\ pc'[w] \in {"intx", "funds"}
    /\ req'[w].key # "none"
    /\ <<pc[w], req[w], result[w], trace[w]>> # <<pc'[w], req'[w], result'[w], trace'[w]>>

\* C21: a validation that starts while another transaction holds the session's
\* advisory lock returns, in that step, approved=false with code LOCK_TIMEOUT;
\* it has run no check, made no broker call, read no session row and changed
\* no row and no lock; and the call is never made to wait for the lock: it can
\* always be made and answered at once.
C21_LockTimeoutSafeReject ==
    /\ [](\A w \in Workers :
            result[w].code = "LOCK_TIMEOUT" =>
                /\ ~result[w].approved
                /\ trace[w] = <<>>
                /\ backendCalls[w] = NoCalls
                /\ lockedRow[w] = NoRow
                /\ pc[w] = "intx")
    /\ [](\A w \in Workers, s \in Sessions :
            (pc[w] = "idle" /\ advLock[s] \notin {NoTx, w}) =>
                \A k \in KeysOf(s) : ENABLED ValidateEnter(w, s, k))
    /\ [][\A w \in Workers :
            (Starts(w) /\ advLock[req'[w].session] \notin {NoTx, w}) =>
                /\ result'[w] = Reject("LOCK_TIMEOUT")
                /\ UNCHANGED <<sess, positions, orders, cbFunds, cbRow, advLock,
                               rowLock>>]_vars

\* C21 witness: a validation holds LOCK_TIMEOUT while the other worker's
\* evaluation of the same session is waiting for the broker's funds
C21_Witness ==
    \E w1, w2 \in Workers :
        /\ w1 # w2
        /\ result[w1] = Reject("LOCK_TIMEOUT")
        /\ req[w1].session = req[w2].session
        /\ advLock[req[w1].session] = w2
        /\ pc[w2] = "funds"

\* C22: a validation that met a failure of the broker -- get_funds() raised, or
\* get_quote() raised when the price was asked for -- has a result with
\* approved=false.
C22_NoApprovalOnFailure ==
    \A w \in Workers :
        (Decided(w) /\ (funds[w].got = "raise" \/ req[w].quote_failed)) =>
            ~result[w].approved

AtOrAboveLimit(w) ==
    LET used  == funds[w].used_margin
        total == IF funds[w].available_margin + used = 0 THEN 1
                 ELSE funds[w].available_margin + used
    IN used * 100 >= lockedRow[w].max_margin_usage_pct * total

TakesFunds(w) == funds[w].got # "funds" /\ funds'[w].got = "funds"

-----------------------------------------------------------------------------
(* The orders breaker under a caller whose errors propagate through the    *)
(* context manager: core/circuit_breaker.py (SpecBreaker)                  *)

\* Seconds the wall clock moves in one step, and the end of the observed time
ClockStep == 10
MaxClock  == 100

CallOutcomes == {"success", "failure"}

\* async with cb.call(db) as allowed: up to the yield. A caller that is not
\* allowed returns without invoking the protected function.
\* The state object is loaded first; an exception of the load leaves call()
\* before the yield, so the body of the async with never runs.
CallEnter(rd) ==
    /\ ~cbCall.active
    /\ LET loaded == get_or_create_state(cb, rd)
           gate   == cb_call(loaded.state, clock) IN
          IF loaded.raised
          THEN /\ cb' = cb
               /\ cbCall' = [active |-> TRUE, allowed |-> FALSE,
                             invoked |-> FALSE, now |-> clock, read |-> rd,
                             raised |-> TRUE, entry |-> cb]
          ELSE /\ cb' = gate.st
               /\ cbCall' = [active |-> TRUE, allowed |-> gate.allowed,
                             invoked |-> gate.allowed, now |-> clock,
                             read |-> rd, raised |-> FALSE, entry |-> cb]
    /\ UNCHANGED <<clock, cbHist, probe>>
    /\ UNCHANGED <<riskVars, execVars>>

\* The body of the async with returns or raises; call()'s finally records the
\* outcome of an allowed call with the time taken at entry
CallExit(outcome) ==
    /\ cbCall.active
    /\ IF cbCall.allowed
       THEN LET st2 == record_outcome(OrdersBreaker, cb, outcome = "success",
                                      cbCall.now) IN
              /\ cb' = st2
              /\ cbHist' = [streak |-> IF outcome = "success" THEN 0
                                       ELSE cbHist.streak + 1,
                            tripped_at |-> IF st2.state = "OPEN" /\ cb.state # "OPEN"
                                           THEN cbCall.now
                                           ELSE cbHist.tripped_at,
                            restarted |-> IF st2.state = "OPEN" /\ cb.state # "OPEN"
                                          THEN FALSE
                                          ELSE cbHist.restarted]
       ELSE UNCHANGED <<cb, cbHist>>
    /\ cbCall' = NoCall
    /\ UNCHANGED <<clock, probe>>
    /\ UNCHANGED <<riskVars, execVars>>

AdvanceClock ==
    /\ clock + ClockStep <= MaxClock
    /\ clock' = clock + ClockStep
    /\ UNCHANGED <<cb, cbCall, cbHist, probe>>
    /\ UNCHANGED <<riskVars, execVars>>

\* The process stops and starts again. The breaker object keeps nothing in
\* memory between calls; a call in flight ends without its outcome being
\* recorded and its open transaction is rolled back by the database.
Restart ==
    /\ cb' = IF cbCall.active THEN cbCall.entry ELSE cb
    /\ cbCall' = NoCall
    /\ cbHist' = [cbHist EXCEPT !.restarted = TRUE]
    /\ UNCHANGED <<clock, probe>>
    /\ UNCHANGED <<riskVars, execVars>>

InitBreaker == RiskIdle /\ BrkIdle /\ ExecIdle

NextBreaker ==
    \/ \E rd \in StateReads : CallEnter(rd)
    \/ Restart
    \/ \E o \in CallOutcomes : CallExit(o)
    \/ AdvanceClock

SpecBreaker == InitBreaker /\ [][NextBreaker]_vars

-----------------------------------------------------------------------------
(* Properties of the circuit breaker (SpecBreaker)                         *)

FailureRecorded == cbCall.active /\ cbCall.allowed /\ cbHist'.streak = cbHist.streak + 1
SuccessRecorded ==
    /\ cbCall.active /\ cbCall.allowed /\ ~cbCall'.active
    /\ cbHist'.streak = 0
    /\ cbHist'.restarted = cbHist.restarted

-----------------------------------------------------------------------------
(* The orders breaker under concurrent callers, each in a transaction of   *)
(* its own: core/circuit_breaker.py (SpecProbe)                            *)

Callers == {"c1", "c2"}

\* a caller outside call()
NoProbe == [pc |-> "idle", loaded |-> CBClosedRow, st |-> CBClosedRow,
            now |-> NoTime, wrote |-> FALSE]

\* the row's lock is free for caller c: no other transaction has written the
\* row and not yet ended
cb_row_free(c) == \A d \in Callers \ {c} : ~probe[d].wrote

\* The UPDATE the session's flush emits for the state object: the columns whose
\* value the caller changed since it loaded the object are set on the row as
\* it is now
flush_update(row, loaded, st) ==
    [f \in DOMAIN row |-> IF st[f] # loaded[f] THEN st[f] ELSE row[f]]

\* call() up to its yield, or up to the flush of OPEN -> HALF_OPEN: the state
\* object is loaded from the committed row and now is taken
ProbeLoad(c) ==
    /\ probe[c].pc = "idle"
    /\ LET gate == cb_call(cb, clock) IN
          probe' = [probe EXCEPT ![c] =
                       [pc |-> IF ~gate.allowed THEN "refused"
                               ELSE IF gate.st # cb THEN "flush" ELSE "body",
                        loaded |-> cb, st |-> gate.st, now |-> clock,
                        wrote |-> FALSE]]
    /\ UNCHANGED <<cb, cbCall, clock, cbHist>>
    /\ UNCHANGED <<riskVars, execVars>>

\* await db.flush() of the OPEN -> HALF_OPEN transition: the UPDATE waits
\* while another transaction holds the row, then call() yields True
ProbeFlush(c) ==
    /\ probe[c].pc = "flush"
    /\ cb_row_free(c)
    /\ probe' = [probe EXCEPT ![c].pc = "body", ![c].wrote = TRUE]
    /\ UNCHANGED <<cb, cbCall, clock, cbHist>>
    /\ UNCHANGED <<riskVars, execVars>>

\* The body of the async with ends: a caller that was let through has its
\* outcome recorded (_record_outcome always writes the row, which waits while
\* another transaction holds it), then the caller's transaction commits
ProbeExit(c, outcome) ==
    /\ probe[c].pc \in {"body", "refused"}
    /\ IF probe[c].pc = "refused"
       THEN cb' = cb
       ELSE /\ cb_row_free(c)
            /\ cb' = flush_update(cb, probe[c].loaded,
                                  record_outcome(OrdersBreaker, probe[c].st,
                                                 outcome = "success", probe[c].now))
    /\ probe' = [probe EXCEPT ![c] = NoProbe]
    /\ UNCHANGED <<cbCall, clock, cbHist>>
    /\ UNCHANGED <<riskVars, execVars>>

InitProbe ==
    /\ cb = CBClosedRow /\ cbCall = NoCall /\ clock = 0 /\ cbHist = NoHist
    /\ probe = [c \in Callers |-> NoProbe]
    /\ RiskIdle
    /\ ExecIdle

NextProbe ==
    \/ \E c \in Callers : ProbeLoad(c)
    \/ \E c \in Callers : ProbeFlush(c)
    \/ \E c \in Callers, o \in CallOutcomes : ProbeExit(c, o)
    \/ AdvanceClock

SpecProbe == InitProbe /\ [][NextProbe]_vars

\* C27: at most one caller at a time is inside the body of call() with the
\* breaker HALF_OPEN: while a probe is outstanding no other caller is let
\* through to the protected service.
C27_SingleProbeInHalfOpen ==
    Cardinality({c \in Callers : /\ probe[c].pc = "body"
                                 /\ probe[c].st.state = "HALF_OPEN"}) <= 1

-----------------------------------------------------------------------------
(* Kill-switch triggers in transactions of their own, and the audit trail  *)
(* they write: services/risk_engine.py (SpecKill)                          *)

Triggers     == {"t1", "t2"}
\* the session the triggers are about
KilledSession == "s1"
\* reason and actor of a trigger: two operators, the inline daily-loss check
KillRequests ==
    { [reason |-> "MANUAL", actor |-> Operator],
      [reason |-> "MANUAL", actor |-> "admin"],
      [reason |-> "DAILY_LOSS_BREACH", actor |-> SystemActor] }
\* the audit rows the model lets the table hold, and the end of the observed time
MaxAudit     == 3
MaxKillClock == 20

NoTrigger == [pc |-> "idle", reason |-> "NULL", actor |-> "NULL", now |-> NoTime,
              killed_at_start |-> FALSE, returned |-> FALSE]

\* _add_audit: the row it adds to the session, written by transaction tx
AuditRow(event, s, actor, reason, tx) ==
    [event |-> event, session |-> s, actor |-> actor, reason |-> reason, tx |-> tx]

\* The caller's transaction starts; NOW() is the transaction's start time
KillBegin(t, k) ==
    /\ trig[t].pc = "idle"
    /\ trig' = [trig EXCEPT ![t] =
                   [pc |-> "begun", reason |-> k.reason, actor |-> k.actor,
                    now |-> clock,
                    killed_at_start |-> is_killed_for(sess, KilledSession, t),
                    returned |-> FALSE]]
    /\ UNCHANGED <<sess, rowLock, audit, clock>>
    /\ UNCHANGED <<positions, orders, cbFunds, cbRow, advLock, pc, req, lockedRow,
                   funds, trace, result, killedDuring, backendCalls>>
    /\ UNCHANGED <<cb, cbCall, cbHist, probe>>
    /\ UNCHANGED <<strat, statusCache, tick, sender, xclock, restarts, logVars,
                   reconVars, sigVars, ackVars, feedVars>>

\* _trigger_kill_switch: the conditional UPDATE, which waits while another
\* transaction holds the row and then tests the row as committed, and the
\* audit row if the UPDATE returned the id
KillUpdate(t) ==
    /\ trig[t].pc = "begun"
    /\ row_free(t, KilledSession)
    /\ LET s   == KilledSession
           hit == kill_update_returns(sess, s)
       IN /\ hit => Len(audit) < MaxAudit
          /\ sess' = kill_update(sess, s, trig[t].reason, trig[t].actor,
                                 trig[t].now, t)
          /\ rowLock' = IF hit THEN [rowLock EXCEPT ![s] = t] ELSE rowLock
          /\ audit' = IF hit
                      THEN Append(audit, AuditRow("KILL_SWITCH_ACTIVATED", s,
                                                  trig[t].actor, trig[t].reason, t))
                      ELSE audit
          /\ trig' = [trig EXCEPT ![t].pc = "updated", ![t].returned = hit]
    /\ UNCHANGED clock
    /\ UNCHANGED <<positions, orders, cbFunds, cbRow, advLock, pc, req, lockedRow,
                   funds, trace, result, killedDuring, backendCalls>>
    /\ UNCHANGED <<cb, cbCall, cbHist, probe>>
    /\ UNCHANGED <<strat, statusCache, tick, sender, xclock, restarts, logVars,
                   reconVars, sigVars, ackVars, feedVars>>

\* the caller's transaction commits
KillCommit(t) ==
    /\ trig[t].pc = "updated"
    /\ sess' = commit_kills(t)
    /\ rowLock' = release(rowLock, t)
    /\ audit' = [i \in DOMAIN audit |->
                    IF audit[i].tx = t THEN [audit[i] EXCEPT !.tx = NoTx]
                    ELSE audit[i]]
    /\ trig' = [trig EXCEPT ![t] = NoTrigger]
    /\ UNCHANGED clock
    /\ UNCHANGED <<positions, orders, cbFunds, cbRow, advLock, pc, req, lockedRow,
                   funds, trace, result, killedDuring, backendCalls>>
    /\ UNCHANGED <<cb, cbCall, cbHist, probe>>
    /\ UNCHANGED <<strat, statusCache, tick, sender, xclock, restarts, logVars,
                   reconVars, sigVars, ackVars, feedVars>>

\* the caller's transaction is rolled back
KillRollback(t) ==
    /\ trig[t].pc = "updated"
    /\ sess' = rollback_kills(t)
    /\ rowLock' = release(rowLock, t)
    /\ audit' = SelectSeq(audit, LAMBDA r : r.tx # t)
    /\ trig' = [trig EXCEPT ![t] = NoTrigger]
    /\ UNCHANGED clock
    /\ UNCHANGED <<positions, orders, cbFunds, cbRow, advLock, pc, req, lockedRow,
                   funds, trace, result, killedDuring, backendCalls>>
    /\ UNCHANGED <<cb, cbCall, cbHist, probe>>
    /\ UNCHANGED <<strat, statusCache, tick, sender, xclock, restarts, logVars,
                   reconVars, sigVars, ackVars, feedVars>>

\* deactivate_kill_switch from a transaction of its own, committed at once:
\* the unconditional UPDATE and its audit row
KillDeactivate(actor) ==
    /\ rowLock[KilledSession] = NoTx
    /\ Len(audit) < MaxAudit
    /\ sess' = [sess EXCEPT ![KilledSession].is_killed = FALSE,
                            ![KilledSession].kill_reason = "NULL",
                            ![KilledSession].kill_time = NoTime,
                            ![KilledSession].killed_by = "NULL"]
    /\ audit' = Append(audit, AuditRow("KILL_SWITCH_DEACTIVATED", KilledSession,
                                       actor, "NULL", NoTx))
    /\ UNCHANGED <<rowLock, trig, clock>>
    /\ UNCHANGED <<positions, orders, cbFunds, cbRow, advLock, pc, req, lockedRow,
                   funds, trace, result, killedDuring, backendCalls>>
    /\ UNCHANGED <<cb, cbCall, cbHist, probe>>
    /\ UNCHANGED <<strat, statusCache, tick, sender, xclock, restarts, logVars,
                   reconVars, sigVars, ackVars, feedVars>>

\* time passes
KillTick ==
    /\ clock + ClockStep <= MaxKillClock
    /\ clock' = clock + ClockStep
    /\ UNCHANGED <<cb, cbCall, cbHist, probe>>
    /\ UNCHANGED <<riskVars, execVars>>

InitKill ==
    /\ trig = [t \in Triggers |-> NoTrigger]
    /\ audit = <<>>
    /\ sess = [s \in Sessions |-> SessionRow(0)]
    /\ positions = [s \in Sessions |-> [y \in Symbols |-> 0]]
    /\ RiskAtRest
    /\ BrkIdle
    /\ ExecAtRest /\ LogIdle /\ ReconIdle /\ SignalIdle /\ AckIdle /\ FeedIdle

NextKill ==
    \/ \E t \in Triggers, k \in KillRequests : KillBegin(t, k)
    \/ \E t \in Triggers : KillUpdate(t)
    \/ \E t \in Triggers : KillCommit(t)
    \/ \E t \in Triggers : KillRollback(t)
    \/ KillDeactivate(Operator)
    \/ KillTick

SpecKill == InitKill /\ [][NextKill]_vars

-----------------------------------------------------------------------------
(* Properties of the kill switch (SpecKill)                                *)

\* the KILL_SWITCH_ACTIVATED rows of session s that no later
\* KILL_SWITCH_DEACTIVATED row of s follows
ActivationsInForce(s) ==
    {i \in DOMAIN audit :
        /\ audit[i].session = s /\ audit[i].event = "KILL_SWITCH_ACTIVATED"
        /\ \A j \in DOMAIN audit :
              (j > i /\ audit[j].session = s)
                  => audit[j].event # "KILL_SWITCH_DEACTIVATED"}

\* the step in which trigger t runs its UPDATE
Triggered(t) == trig[t].pc = "begun" /\ trig'[t].pc = "updated"

\* C29: a trigger of the kill switch on a session that is already killed
\* changes nothing: the session's row (kill_reason, kill_time and killed_by
\* included) and the audit trail stay as the first activation left them, also
\* when the trigger started before the first activation was written; a killed
\* session has exactly one KILL_SWITCH_ACTIVATED row in force, which carries
\* the reason and the actor of its row.
C29_KillSwitchIdempotent ==
    /\ [][\A t \in Triggers :
            (Triggered(t) /\ sess[KilledSession].is_killed) =>
                /\ sess' = sess
                /\ audit' = audit
                /\ ~trig'[t].returned]_vars
    /\ [](LET s == KilledSession IN
           /\ Cardinality(ActivationsInForce(s)) <= 1
           /\ sess[s].is_killed =>
                 \E i \in ActivationsInForce(s) :
                     /\ audit[i].reason = sess[s].kill_reason
                     /\ audit[i].actor = sess[s].killed_by
                     /\ audit[i].tx = sess[s].kill_tx)

\* C29 witness: two triggers raced (the second started while the session was
\* not killed, later than the first), the first one's activation is committed
\* and the second one's UPDATE has returned nothing and left the first one's
\* reason, time and actor
C29_Witness ==
    \E t \in Triggers :
        LET row == sess[KilledSession] IN
        /\ trig[t].pc = "updated" /\ ~trig[t].returned
        /\ ~trig[t].killed_at_start
        /\ row.is_killed /\ row.kill_tx = NoTx
        /\ row.kill_reason # trig[t].reason
        /\ row.killed_by # trig[t].actor
        /\ row.kill_time < trig[t].now
        /\ Cardinality(ActivationsInForce(KilledSession)) = 1

-----------------------------------------------------------------------------
(* Reconciliation worker: workers/reconciliation.py, with the broker client *)
(* of services/broker_service.py that main.py hands to it (SpecRecon)        *)

\* reconciliation.py MAX_RECONCILE_FAILURES
MAX_RECONCILE_FAILURES == 3
\* the reconciliation cycles observed
MaxCycles == 3

\* _get_active_session: the session whose date is today
ActiveSession == "s1"

\* What the broker can hold for a symbol, and the states of an order in its book
\* as get_orders names them
BrokerPositions == { NoPosition,
                     [held |-> TRUE, net_qty |-> 50, pnl |-> 0],
                     [held |-> TRUE, net_qty |-> 50, pnl |-> -600] }
BrokerOrderStatuses == {"ABSENT", "TRANSIT", "PENDING", "FILLED", "CANCELLED"}
\* the order ids whose state at the broker moves during the observed time
BookKeys == {"K-001"}
Network  == {"up", "down"}

\* BrokerService.get_positions: the broker's net positions; every exception of
\* the request is caught and an empty list is returned
get_positions(net) ==
    [raised |-> FALSE,
     list |-> IF net = "up" THEN broker.positions
              ELSE [y \in Symbols |-> NoPosition]]

\* BrokerService.get_orders: the same, for the order book
get_orders(net) ==
    [raised |-> FALSE,
     list |-> IF net = "up" THEN broker.orders ELSE [k \in Keys |-> "ABSENT"]]

\* _reconcile_positions: broker_pos["net_qty"] if broker_pos else 0
broker_qty(bp, y) == IF bp[y].held THEN bp[y].net_qty ELSE 0

\* _reconcile_positions with the correction of net_quantity left out
corrected_quantity_kept(local, bq) == local

\* _reconcile_positions: the net_quantity a row is left with
corrected_quantity(local, bq) == IF bq # local THEN bq ELSE local

\* the local rows of session s that differ from the broker's list
differing(s, bp) == {y \in Symbols : broker_qty(bp, y) # positions[s][y]}

\* run_once: sum(p.get("pnl", 0) for p in broker_positions)
RECURSIVE total_unrealized(_, _)
total_unrealized(S, bp) ==
    IF S = {} THEN 0
    ELSE LET y == CHOOSE z \in S : TRUE IN
           (IF bp[y].held THEN bp[y].pnl ELSE 0) + total_unrealized(S \ {y}, bp)

\* _reconcile_orders: status_map.get(broker_status)
order_status_map(bs) ==
    IF bs \in {"FILLED", "PARTIALLY_FILLED", "CANCELLED", "REJECTED", "PENDING"}
    THEN bs ELSE "NONE"

terminal == {"FILLED", "CANCELLED", "REJECTED", "EXPIRED", "RISK_REJECTED"}

\* _reconcile_orders with the test of the local status left out of its SELECT
order_mismatch_any_status(o, bo) ==
    /\ o.session = ActiveSession
    /\ o.broker_order_id # "NULL"
    /\ bo[o.broker_order_id] # "ABSENT"
    /\ order_status_map(bo[o.broker_order_id]) \notin {"NONE", o.status}

\* _reconcile_orders: the rows it selects, finds at the broker and finds to
\* differ from the broker's status
order_mismatch(o, bo) ==
    /\ o.session = ActiveSession
    /\ o.status \notin terminal
    /\ o.broker_order_id # "NULL"
    /\ bo[o.broker_order_id] # "ABSENT"
    /\ order_status_map(bo[o.broker_order_id]) \notin {"NONE", o.status}

\* _reconcile_orders writing the status without the status_history entry
reconcile_order_silent(o, bo) ==
    IF order_mismatch(o, bo)
    THEN [o EXCEPT !.status = order_status_map(bo[o.broker_order_id])]
    ELSE o

\* _reconcile_orders on one row
reconcile_order(o, bo) ==
    IF order_mismatch(o, bo)
    THEN [o EXCEPT !.status = order_status_map(bo[o.broker_order_id]),
                   !.history = Append(o.history,
                                      order_status_map(bo[o.broker_order_id]))]
    ELSE o

\* _recover_orphaned_orders: the rows it selects
orphaned(o) ==
    /\ o.session = ActiveSession
    /\ o.status \in {"SENDING", "ACKNOWLEDGED"}
    /\ o.stale

\* _recover_orphaned_orders: sm.get(broker_order["status"], "REJECTED")
orphan_resolved(o, bo) ==
    IF /\ o.broker_order_id # "NULL"
       /\ bo[o.broker_order_id] \in {"FILLED", "CANCELLED", "REJECTED", "PENDING"}
    THEN bo[o.broker_order_id] ELSE "REJECTED"

\* _recover_orphaned_orders: "Recovered from orphaned state by reconciliation"
OrphanReason == "orphan"

\* _recover_orphaned_orders on one row
recover_order(o, bo) ==
    IF orphaned(o)
    THEN [o EXCEPT !.status = orphan_resolved(o, bo),
                   !.history = Append(o.history, orphan_resolved(o, bo)),
                   !.reject_reason = OrphanReason]
    ELSE o

\* run_once after a fetch that raised: _increment_failure_count, the FAILED
\* log, the commit, and the kill switch at MAX_RECONCILE_FAILURES
fetch_failed_path(rows) ==
    LET new_count == rows[ActiveSession].reconcile_failure_count + 1
        rows1 == [rows EXCEPT ![ActiveSession].reconcile_failure_count = new_count,
                              ![ActiveSession].last_reconcile_status = "FAILED"]
    IN [sess |-> IF new_count >= MAX_RECONCILE_FAILURES
                 THEN trigger_kill_switch(rows1, ActiveSession, "RECONCILE_FAIL", NoTx)
                 ELSE rows1,
        log |-> [NoLog EXCEPT !.status = "FAILED"]]

\* run_once with the reset of the failure counter counting up instead
reset_failure_count_counting(row) ==
    [row EXCEPT !.reconcile_failure_count = @ + 1, !.last_reconcile_status = "OK"]

\* run_once: UPDATE trading_sessions SET reconcile_failure_count = 0,
\* last_reconcile_status = 'OK'
reset_failure_count(row) ==
    [row EXCEPT !.reconcile_failure_count = 0, !.last_reconcile_status = "OK"]

\* One cycle of run_once for the active session, with the network to the broker
\* up or down while the two fetches run
ReconCycle(net) ==
    /\ recon.runs < MaxCycles
    /\ rowLock[ActiveSession] = NoTx
    /\ LET a  == ActiveSession
           fp == get_positions(net)
           fo == get_orders(net)
           bp == fp.list
           bo == fo.list
           ords1 == {reconcile_order(o, bo) : o \in orders}
           ords2 == {recover_order(o, bo) : o \in ords1}
           pm == Cardinality(differing(a, bp))
           om == Cardinality({o \in orders : order_mismatch(o, bo)})
           rc == Cardinality({o \in ords1 : orphaned(o)})
           status == IF pm + om > 0 THEN "MISMATCH" ELSE "OK"
           failed == fetch_failed_path(sess)
       IN IF fp.raised \/ fo.raised
          THEN /\ sess' = failed.sess
               /\ recon' = [runs |-> recon.runs + 1,
                            log |-> [failed.log EXCEPT !.fetched = net = "up"],
                            quiet |-> TRUE,
                            down |-> IF net = "up" THEN 0 ELSE recon.down + 1]
               /\ UNCHANGED <<positions, posMark, orders>>
          ELSE /\ sess' = [sess EXCEPT ![a] =
                             [reset_failure_count(sess[a]) EXCEPT
                                 !.unrealized_pnl = total_unrealized(Symbols, bp),
                                 !.last_reconcile_status = status]]
               /\ positions' = [positions EXCEPT ![a] =
                                  [y \in Symbols |->
                                      corrected_quantity(positions[a][y],
                                                         broker_qty(bp, y))]]
               /\ posMark' = [posMark EXCEPT ![a] =
                                [y \in Symbols |->
                                    IF y \in differing(a, bp) THEN "CORRECTED"
                                    ELSE "OK"]]
               /\ orders' = ords2
               /\ recon' = [runs |-> recon.runs + 1,
                            log |-> [status |-> status,
                                     positions_checked |->
                                        Cardinality({y \in Symbols : bp[y].held}),
                                     orders_checked |->
                                        Cardinality({k \in Keys : bo[k] # "ABSENT"}),
                                     mismatches |-> [position |-> pm, order |-> om],
                                     corrections |-> [position |-> pm, order |-> om,
                                                      orphan |-> rc],
                                     fetched |-> net = "up"],
                            quiet |-> TRUE,
                            down |-> IF net = "up" THEN 0 ELSE recon.down + 1]
    /\ killedDuring' = NoteKill(sess')
    /\ UNCHANGED <<cbFunds, cbRow, advLock, rowLock, pc, req, lockedRow, funds,
                   trace, result, backendCalls, broker>>
    /\ UNCHANGED <<brkVars, strat, statusCache, tick, sender, xclock, restarts,
                   logVars, sigVars, killVars, ackVars, feedVars>>

\* The broker's position in a symbol changes (a fill, a square-off)
BrokerPositionMoves(y, p) ==
    /\ broker.positions[y] # p
    /\ broker' = [broker EXCEPT !.positions[y] = p]
    /\ recon' = [recon EXCEPT !.quiet = FALSE]
    /\ UNCHANGED <<riskVars, brkVars, posMark>>
    /\ UNCHANGED <<strat, statusCache, tick, sender, xclock, restarts, logVars, sigVars, killVars, ackVars, feedVars>>

\* The state of an order changes in the broker's book
BrokerOrderMoves(k, st) ==
    /\ broker.orders[k] # st
    /\ broker' = [broker EXCEPT !.orders[k] = st]
    /\ recon' = [recon EXCEPT !.quiet = FALSE]
    /\ UNCHANGED <<riskVars, brkVars, posMark>>
    /\ UNCHANGED <<strat, statusCache, tick, sender, xclock, restarts, logVars, sigVars, killVars, ackVars, feedVars>>

\* Sixty seconds pass after an order's sent_at
OrderAges(k) ==
    /\ \E o \in orders : o.key = k /\ ~o.stale
    /\ orders' = {IF o.key = k THEN [o EXCEPT !.stale = TRUE] ELSE o : o \in orders}
    /\ UNCHANGED <<sess, positions, cbFunds, cbRow, advLock, rowLock, pc, req,
                   lockedRow, funds, trace, result, killedDuring, backendCalls>>
    /\ UNCHANGED <<brkVars, execVars>>

\* A trading day in progress: the active session with a position row and an
\* acknowledged order, another day's session with an acknowledged order, the
\* broker's books as the broker has them, no cycle run yet
InitRecon ==
    /\ sess = [s \in Sessions |-> SessionRow(0)]
    /\ \E q \in {0, 50} :
          positions = [s \in Sessions |-> [y \in Symbols |-> q]]
    /\ orders = { OrderRow("K-001", ActiveSession, NoTx, "ok"),
                  OrderRow("K-002", "s2", NoTx, "ok") }
    /\ \E p \in BrokerPositions, st \in BrokerOrderStatuses :
          broker = [positions |-> [y \in Symbols |-> p],
                    orders |-> [k \in Keys |-> IF k \in BookKeys THEN st
                                               ELSE "ABSENT"]]
    /\ posMark = [s \in Sessions |-> [y \in Symbols |-> "PENDING"]]
    /\ recon = NoRecon
    /\ cbFunds = CBClosedRow
    /\ cbRow = [exists |-> "absent", lock |-> NoTx]
    /\ advLock = [s \in Sessions |-> NoTx]
    /\ rowLock = [s \in Sessions |-> NoTx]
    /\ pc = [w \in Workers |-> "idle"]
    /\ req = [w \in Workers |-> NoReq]
    /\ lockedRow = [w \in Workers |-> NoRow]
    /\ funds = [w \in Workers |-> NoFunds]
    /\ trace = [w \in Workers |-> <<>>]
    /\ result = [w \in Workers |-> NoResult]
    /\ killedDuring = [w \in Workers |-> FALSE]
    /\ backendCalls = [w \in Workers |-> NoCalls]
    /\ BrkIdle
    /\ ExecAtRest
    /\ LogIdle
    /\ SignalIdle /\ KillIdle /\ AckIdle /\ FeedIdle

NextRecon ==
    \/ \E net \in Network : ReconCycle(net)
    \/ \E y \in Symbols, p \in BrokerPositions : BrokerPositionMoves(y, p)
    \/ \E k \in BookKeys, st \in BrokerOrderStatuses : BrokerOrderMoves(k, st)
    \/ \E k \in Keys : OrderAges(k)
    \/ ManualKill(ActiveSession)
    \/ DeactivateKillSwitch(ActiveSession)

SpecRecon == InitRecon /\ [][NextRecon]_vars

-----------------------------------------------------------------------------
(* Properties of the reconciliation worker (SpecRecon)                     *)

\* a step is one reconciliation cycle
CycleStep == recon'.runs = recon.runs + 1

\* C14: a cycle during which the broker cannot be reached increments the active
\* session's reconcile_failure_count by one and writes a FAILED log, and at
\* MAX_RECONCILE_FAILURES the session is killed - with reason RECONCILE_FAIL
\* if it was not killed before.
C14_ReconcileFailureAutoKill ==
    [][ (CycleStep /\ ~recon'.log.fetched) =>
          /\ sess'[ActiveSession].reconcile_failure_count =
                sess[ActiveSession].reconcile_failure_count + 1
          /\ recon'.log.status = "FAILED"
          /\ sess'[ActiveSession].reconcile_failure_count >= MAX_RECONCILE_FAILURES =>
                /\ sess'[ActiveSession].is_killed
                /\ ~sess[ActiveSession].is_killed =>
                      sess'[ActiveSession].kill_reason = "RECONCILE_FAIL" ]_vars

C16_ReconcileIdempotent ==
    [][ (CycleStep /\ recon.quiet) =>
          recon'.log.mismatches = [position |-> 0, order |-> 0] ]_vars

After(o) == CHOOSE p \in orders' : p.key = o.key

\* the status the broker reported for order o to the cycle of this step:
\* "ABSENT" for an order without a broker id or one the fetched list lacks
Reported(o) ==
    IF o.broker_order_id = "NULL" \/ ~recon'.log.fetched THEN "ABSENT"
    ELSE broker.orders[o.broker_order_id]

\* order o is one the order reconciliation looks at and the broker reports
Compared(o) ==
    /\ o.session = ActiveSession
    /\ o.status \notin {"FILLED", "CANCELLED", "REJECTED", "EXPIRED", "RISK_REJECTED"}
    /\ Reported(o) # "ABSENT"

\* order o is one the orphan recovery would select
Stuck(o) ==
    /\ o.session = ActiveSession
    /\ o.status \in {"SENDING", "ACKNOWLEDGED"}
    /\ o.stale

MappedStatuses == {"FILLED", "PARTIALLY_FILLED", "CANCELLED", "REJECTED", "PENDING"}

C37_OrphanRecovery ==
    [][ CycleStep =>
          \A o \in orders :
             Stuck(o) =>
                /\ Reported(o) \in {"FILLED", "CANCELLED", "REJECTED", "PENDING"} =>
                      After(o).status = Reported(o)
                /\ After(o).status = "REJECTED" =>
                      Reported(o) \in {"ABSENT", "REJECTED"}
                /\ Reported(o) = "ABSENT" =>
                      /\ After(o).status = "REJECTED"
                      /\ After(o).reject_reason = OrphanReason ]_vars

-----------------------------------------------------------------------------
(* Strategy executor and control service: workers/strategy_executor.py,    *)
(* services/strategy_control.py (SpecExec)                                 *)

Strategies == {"A", "B"}
\* _symbol_map[symbol]: the strategies of the one symbol, in registration order
Subscribed == <<"A", "B">>
Senders    == {"op1", "op2"}
VALID_INTENTS == {"pause", "resume", "stop", "start"}
\* The commands of the two operators: the first sends every intent to strategy
\* "A", the second pauses strategy "B"
TargetsOf(c) == IF c = "op1" THEN {"A"} ELSE {"B"}
IntentsOf(c) == IF c = "op1" THEN VALID_INTENTS ELSE {"pause"}
NoIntent   == "NULL"

\* strategy_control.py ACK_TIMEOUT_S
ACK_TIMEOUT_S == 10
\* _handle_error: no restart is scheduled from the fifth restart on
MaxRestarts   == 5
\* The clock of the control plane moves by the ack timeout in one step; the end
\* of the observed time, and the number of callback errors observed
XClockStep == ACK_TIMEOUT_S
MaxXClock  == 10
MaxErrors  == 1
\* the control commands accepted during the observed time
MaxLogRows == 2

\* strategy_control.py INTENT_RESULT
INTENT_RESULT(intent) ==
    CASE intent = "pause"  -> "paused"
      [] intent = "resume" -> "running"
      [] intent = "stop"   -> "stopped"
      [] intent = "start"  -> "running"

\* _apply_and_ack: status_map.get(intent, "stopped")
status_map(intent) ==
    CASE intent = "pause"  -> "paused"
      [] intent = "resume" -> "running"
      [] intent = "start"  -> "running"
      [] OTHER             -> "stopped"

\* _validate_transition: the pairs it rejects
invalid_transition_lenient(current, intent) ==
    <<current, intent>> \in { <<"paused", "pause">>, <<"stopped", "stop">>,
                              <<"running", "resume">>, <<"running", "start">> }

\* _validate_transition: the pairs (current status, intent) it refuses
invalid_transition(current, intent) ==
    <<current, intent>> \in { <<"paused", "pause">>, <<"stopped", "stop">>,
                              <<"stopped", "pause">>, <<"running", "resume">>,
                              <<"running", "start">> }

\* _wait_for_ack with the test of the row's status left out
ack_observed_any_status(row, expected, set_at) ==
    /\ row.control_intent = NoIntent
    /\ row.intent_acked_at # NoTime
    /\ row.intent_acked_at >= set_at

\* _wait_for_ack: the condition under which a polled row counts as acknowledged
ack_observed(row, expected, set_at) ==
    /\ row.control_intent = NoIntent
    /\ row.status = expected
    /\ row.intent_acked_at # NoTime
    /\ row.intent_acked_at >= set_at

\* A strategy_states row. metrics_of is a history field: the callback whose
\* result dict the row's metrics columns were written from by the latest tick
\* ("none" until that tick has written them).
StrategyRow(status, rc) ==
    [status |-> status, control_intent |-> NoIntent, intent_acked_at |-> NoTime,
     intent_set_at |-> NoTime, intent_actor |-> "NULL",
     auto_restart |-> TRUE, restart_count |-> rc,
     error_count |-> 0, error_message |-> "NULL", error_trace |-> "NULL",
     metrics_of |-> "none"]

\* A strategy_control_log row as _log_control_action inserts it: acked_at and
\* ack_latency_ms are NULL
ControlLogRow(name, action, from_status) ==
    [strategy_name |-> name, action |-> action, from_status |-> from_status,
     acked_at |-> NoTime, ack_latency_ms |-> NoTime]

\* An UPDATE (op = "UPDATE", new is the new row) or DELETE statement that
\* matches row i of strategy_control_log. Where the trigger scl_immutable
\* (BEFORE UPDATE OR DELETE .. FOR EACH ROW) is installed it raises before the
\* row is touched and the statement fails; a schema without the trigger
\* executes the statement.
row_statement(installed, rows, i, op, new) ==
    IF installed
    THEN [raised |-> TRUE, rows |-> rows]
    ELSE [raised |-> FALSE,
          rows |-> IF op = "DELETE"
                   THEN [j \in 1..(Len(rows) - 1) |-> IF j < i THEN rows[j] ELSE rows[j + 1]]
                   ELSE [rows EXCEPT ![i] = new]]

Max(S) == CHOOSE x \in S : \A y \in S : y <= x

\* send_intent's subquery: the ids of the rows of the strategy and action with
\* acked_at NULL; ORDER BY created_at DESC LIMIT 1 takes the latest
unacked_ids(log, name, action) ==
    {i \in DOMAIN log : /\ log[i].strategy_name = name
                        /\ log[i].action = action
                        /\ log[i].acked_at = NoTime}

\* send_intent's UPDATE strategy_control_log SET acked_at = CURRENT_TIMESTAMP,
\* ack_latency_ms = :ms WHERE id IN (the latest unacknowledged row)
ack_patch(installed, log, name, action, now, ms) ==
    LET ids == unacked_ids(log, name, action) IN
      IF ids = {} THEN [raised |-> FALSE, rows |-> log]
      ELSE row_statement(installed, log, Max(ids), "UPDATE",
                         [log[Max(ids)] EXCEPT !.acked_at = now,
                                               !.ack_latency_ms = ms])

\* the senders that have passed the checks of step 1 and not yet written
Writing == {c \in Senders : sender[c].pc = "write"}

NoTick == [active |-> FALSE, names |-> <<>>, results |-> <<>>]
NoSeen == [status |-> "none", control_intent |-> NoIntent, intent_acked_at |-> NoTime]
NoRet  == [status |-> "none", current_status |-> "none", ack_latency_ms |-> NoTime]
IdleSender == [pc |-> "idle", name |-> "none", intent |-> "none",
               from_status |-> "none", set_at |-> NoTime, seen |-> NoSeen,
               ret |-> NoRet]

\* on_tick: [n for n in subscribed if self._status_cache.get(n) == "running"]
running_names(cache) == SelectSeq(Subscribed, LAMBDA n : cache[n] = "running")

Min(a, b) == IF a < b THEN a ELSE b

\* traceback.format_exc(): the formatted traceback of the exception that an
\* except clause is handling at the time of the call (handled), and the text
\* for "no exception" when none is being handled
format_exc(handled) ==
    IF handled = "none" THEN "NoneType: None" ELSE "Traceback"

\* _handle_error that also drops the row's pending intent
handle_error_clearing_intent(st, n) ==
    LET row == st.strat[n]
        again == row.auto_restart /\ row.restart_count < MaxRestarts
    IN [strat |-> [st.strat EXCEPT ![n] =
                      [row EXCEPT !.status = "error",
                                  !.control_intent = NoIntent,
                                  !.error_message = "str(exc)",
                                  !.error_trace = format_exc("none"),
                                  !.error_count = row.error_count + 1,
                                  !.auto_restart =
                                      IF ~again /\ row.restart_count >= MaxRestarts
                                      THEN FALSE ELSE row.auto_restart]],
        cache |-> [st.cache EXCEPT ![n] = "error"],
        restarts |-> IF again THEN [st.restarts EXCEPT ![n] = @ + 1]
                     ELSE st.restarts]

\* _handle_error on the executor's state st = [strat, cache, restarts]
handle_error(st, n) ==
    LET row == st.strat[n]
        again == row.auto_restart /\ row.restart_count < MaxRestarts
    IN [strat |-> [st.strat EXCEPT ![n] =
                      [row EXCEPT !.status = "error",
                                  !.error_message = "str(exc)",
                                  !.error_trace = format_exc("none"),
                                  !.error_count = row.error_count + 1,
                                  !.auto_restart =
                                      IF ~again /\ row.restart_count >= MaxRestarts
                                      THEN FALSE ELSE row.auto_restart]],
        cache |-> [st.cache EXCEPT ![n] = "error"],
        restarts |-> IF again THEN [st.restarts EXCEPT ![n] = @ + 1]
                     ELSE st.restarts]

\* _update_metrics: the row's metrics columns are written from the dict m
update_metrics(st, n, m) ==
    [st EXCEPT !.strat[n].metrics_of = m.owner]

\* on_tick: for name, result in zip(names, results), from the i-th pair on
RECURSIVE apply_results(_, _, _, _)
apply_results(names, results, i, st) ==
    IF i > Min(Len(names), Len(results)) THEN st
    ELSE apply_results(names, results, i + 1,
            IF results[i].kind = "raise" THEN handle_error(st, names[i])
            ELSE update_metrics(st, names[i], results[i]))

TotalErrors == strat["A"].error_count + strat["B"].error_count

\* the results asyncio.gather returns for the callbacks of names: each
\* callback returns its dict or raises
GatherResults(names) ==
    { r \in [1..Len(names) -> {"dict", "raise"}] :
         (\E i \in 1..Len(names) : r[i] = "raise") => TotalErrors < MaxErrors }

\* on_tick up to the await of asyncio.gather: one task per subscribed strategy
\* whose cached status is running
TickDispatch ==
    /\ ~tick.active
    /\ LET names == running_names(statusCache) IN
          /\ names # <<>>
          /\ \E r \in GatherResults(names) :
                tick' = [active |-> TRUE, names |-> names,
                         results |-> [i \in 1..Len(names) |->
                                        [owner |-> names[i], kind |-> r[i]]]]
    /\ strat' = [n \in Strategies |-> [strat[n] EXCEPT !.metrics_of = "none"]]
    /\ UNCHANGED <<statusCache, sender, xclock, restarts>>
    /\ UNCHANGED <<riskVars, brkVars, logVars, reconVars, sigVars, killVars, ackVars, feedVars>>

\* on_tick after the gather: the running names are read from the cache again
\* and zipped with the results; each pair is handled, then the commit
TickApply ==
    /\ tick.active
    /\ LET st == apply_results(running_names(statusCache), tick.results, 1,
                               [strat |-> strat, cache |-> statusCache,
                                restarts |-> restarts])
       IN /\ strat' = st.strat
          /\ statusCache' = st.cache
          /\ restarts' = st.restarts
    /\ tick' = NoTick
    /\ UNCHANGED <<sender, xclock>>
    /\ UNCHANGED <<riskVars, brkVars, logVars, reconVars, sigVars, killVars, ackVars, feedVars>>

\* _auto_restart after its sleep: UPDATE .. WHERE status = 'error' RETURNING
AutoRestart(n) ==
    /\ restarts[n] > 0
    /\ restarts' = [restarts EXCEPT ![n] = @ - 1]
    /\ IF strat[n].status = "error"
       THEN /\ strat' = [strat EXCEPT ![n].status = "running",
                                      ![n].error_message = "NULL",
                                      ![n].error_trace = "NULL",
                                      ![n].restart_count = @ + 1]
            /\ statusCache' = [statusCache EXCEPT ![n] = "running"]
       ELSE UNCHANGED <<strat, statusCache>>
    /\ UNCHANGED <<tick, sender, xclock>>
    /\ UNCHANGED <<riskVars, brkVars, logVars, reconVars, sigVars, killVars, ackVars, feedVars>>

\* _apply_and_ack with the clearing of the intent left out
apply_and_ack_keeping_intent(row, now) ==
    [row EXCEPT !.status = status_map(row.control_intent),
                !.intent_acked_at = now,
                !.error_message = IF row.control_intent \in {"resume", "start"}
                                  THEN "NULL" ELSE row.error_message,
                !.auto_restart = IF row.control_intent = "stop" THEN FALSE
                                 ELSE row.auto_restart]

\* _apply_and_ack on one row
apply_and_ack(row, now) ==
    [row EXCEPT !.status = status_map(row.control_intent),
                !.control_intent = NoIntent,
                !.intent_acked_at = now,
                !.error_message = IF row.control_intent \in {"resume", "start"}
                                  THEN "NULL" ELSE row.error_message,
                !.auto_restart = IF row.control_intent = "stop" THEN FALSE
                                 ELSE row.auto_restart]

\* One round of _control_loop that finds pending intents: each is applied and
\* acknowledged, then the commit
ControlLoop ==
    /\ \E n \in Strategies : strat[n].control_intent # NoIntent
    /\ strat' = [n \in Strategies |->
                    IF strat[n].control_intent # NoIntent
                    THEN apply_and_ack(strat[n], xclock) ELSE strat[n]]
    /\ statusCache' = [n \in Strategies |->
                          IF strat[n].control_intent # NoIntent
                          THEN status_map(strat[n].control_intent)
                          ELSE statusCache[n]]
    /\ UNCHANGED <<tick, sender, xclock, restarts>>
    /\ UNCHANGED <<riskVars, brkVars, logVars, reconVars, sigVars, killVars, ackVars, feedVars>>

\* send_intent step 1: read the row, validate the transition, refuse while an
\* intent is pending, take intent_set_at
SendIntentRead(c, n, intent) ==
    /\ sender[c].pc \in {"idle", "returned"}
    /\ ~invalid_transition(strat[n].status, intent)
    /\ strat[n].control_intent = NoIntent
    /\ Len(ctlLog) + Cardinality(Writing) < MaxLogRows
    /\ sender' = [sender EXCEPT ![c] =
                    [IdleSender EXCEPT !.pc = "write", !.name = n,
                                       !.intent = intent,
                                       !.from_status = strat[n].status,
                                       !.set_at = xclock]]
    /\ UNCHANGED <<strat, statusCache, tick, xclock, restarts>>
    /\ UNCHANGED <<riskVars, brkVars, logVars, reconVars, sigVars, killVars, ackVars, feedVars>>

\* send_intent steps 2 and 3: UPDATE .. WHERE control_intent IS NULL, the check
\* of the row read back (INTENT_RACE), the control log row and the commit
SendIntentWrite(c) ==
    /\ sender[c].pc = "write"
    /\ LET n   == sender[c].name
           row == IF strat[n].control_intent = NoIntent
                  THEN [strat[n] EXCEPT !.control_intent = sender[c].intent,
                                        !.intent_set_at = sender[c].set_at,
                                        !.intent_actor = c,
                                        !.intent_acked_at = NoTime]
                  ELSE strat[n]
       IN IF row.control_intent # sender[c].intent
          THEN /\ sender' = [sender EXCEPT ![c] =
                               [IdleSender EXCEPT !.pc = "returned",
                                    !.ret = [NoRet EXCEPT !.status = "error",
                                               !.current_status = "INTENT_RACE"]]]
               /\ UNCHANGED <<strat, ctlLog>>
          ELSE /\ strat' = [strat EXCEPT ![n] = row]
               /\ ctlLog' = Append(ctlLog, ControlLogRow(n, sender[c].intent,
                                                         sender[c].from_status))
               /\ sender' = [sender EXCEPT ![c].pc = "waiting"]
    /\ UNCHANGED <<statusCache, tick, xclock, restarts, appendOnly>>
    /\ UNCHANGED <<riskVars, brkVars, reconVars, sigVars, killVars, ackVars, feedVars>>

\* _wait_for_ack: one poll of the row before the deadline
WaitForAckPoll(c) ==
    /\ sender[c].pc = "waiting"
    /\ xclock < sender[c].set_at + ACK_TIMEOUT_S
    /\ LET row == strat[sender[c].name] IN
         IF ack_observed(row, INTENT_RESULT(sender[c].intent), sender[c].set_at)
         THEN sender' = [sender EXCEPT ![c].pc = "acked",
                            ![c].seen = [status |-> row.status,
                                         control_intent |-> row.control_intent,
                                         intent_acked_at |-> row.intent_acked_at]]
         ELSE UNCHANGED sender
    /\ UNCHANGED <<strat, statusCache, tick, xclock, restarts>>
    /\ UNCHANGED <<riskVars, brkVars, logVars, reconVars, sigVars, killVars, ackVars, feedVars>>

\* _wait_for_ack leaves its loop at the deadline; send_intent returns pending
WaitForAckTimeout(c) ==
    /\ sender[c].pc = "waiting"
    /\ xclock >= sender[c].set_at + ACK_TIMEOUT_S
    /\ sender' = [sender EXCEPT ![c] =
                     [IdleSender EXCEPT !.pc = "returned",
                          !.ret = [NoRet EXCEPT !.status = "pending",
                                     !.current_status = sender[c].from_status]]]
    /\ UNCHANGED <<strat, statusCache, tick, xclock, restarts>>
    /\ UNCHANGED <<riskVars, brkVars, logVars, reconVars, sigVars, killVars, ackVars, feedVars>>

\* _wait_for_ack: latency_ms of the acknowledgement read by the last poll
latency_ms(s) == (s.seen.intent_acked_at - s.set_at) * 1000

\* send_intent after an observed ack: the UPDATE of the control log row, the
\* commit, and the confirmed result with final_status. An UPDATE that raises
\* leaves send_intent by the exception, before the commit and the return.
SendIntentConfirm(c) ==
    /\ sender[c].pc = "acked"
    /\ LET patch == ack_patch(appendOnly, ctlLog, sender[c].name,
                              sender[c].intent, xclock, latency_ms(sender[c]))
       IN IF patch.raised
          THEN /\ sender' = [sender EXCEPT ![c] =
                               [IdleSender EXCEPT !.pc = "returned",
                                    !.ret = [NoRet EXCEPT !.status = "raised"]]]
               /\ UNCHANGED ctlLog
          ELSE /\ ctlLog' = patch.rows
               /\ sender' = [sender EXCEPT ![c] =
                               [IdleSender EXCEPT !.pc = "returned",
                                    !.ret = [status |-> "confirmed",
                                             current_status |-> sender[c].seen.status,
                                             ack_latency_ms |-> latency_ms(sender[c])]]]
    /\ UNCHANGED <<strat, statusCache, tick, xclock, restarts, appendOnly>>
    /\ UNCHANGED <<riskVars, brkVars, reconVars, sigVars, killVars, ackVars, feedVars>>

AdvanceXClock ==
    /\ xclock + XClockStep <= MaxXClock
    /\ xclock' = xclock + XClockStep
    /\ UNCHANGED <<strat, statusCache, tick, sender, restarts>>
    /\ UNCHANGED <<riskVars, brkVars, logVars, reconVars, sigVars, killVars, ackVars, feedVars>>

\* After start(): the rows exist (status persisted by an earlier run, or
\* "stopped" as inserted by _ensure_strategy_rows) and the cache is read from them
InitExec ==
    /\ \E st \in {s \in [Strategies -> {"running", "stopped"}] : s["B"] = "running"} :
          /\ strat = [n \in Strategies |-> StrategyRow(st[n], 0)]
          /\ statusCache = st
    /\ tick = NoTick
    /\ sender = [c \in Senders |-> IdleSender]
    /\ xclock = 0
    /\ restarts = [n \in Strategies |-> 0]
    /\ ctlLog = <<>>
    /\ appendOnly \in BOOLEAN
    /\ ReconIdle
    /\ SignalIdle /\ KillIdle /\ AckIdle /\ FeedIdle
    /\ RiskIdle
    /\ BrkIdle

NextExec ==
    \/ TickDispatch
    \/ TickApply
    \/ \E n \in Strategies : AutoRestart(n)
    \/ ControlLoop
    \/ \E c \in Senders : \E n \in TargetsOf(c), i \in IntentsOf(c) :
          SendIntentRead(c, n, i)
    \/ \E c \in Senders : SendIntentWrite(c)
    \/ \E c \in Senders : WaitForAckPoll(c)
    \/ \E c \in Senders : WaitForAckTimeout(c)
    \/ \E c \in Senders : SendIntentConfirm(c)
    \/ AdvanceXClock

SpecExec == InitExec /\ [][NextExec]_vars

\* The control loop is a task of its own (start() creates it) that wakes every
\* CONTROL_POLL_INTERVAL_S while the executor runs and survives every exception
\* of a round: a round that has pending intents to apply is eventually run.
\* Nothing is assumed of the ticks, the senders or the restarts.
SpecExecLive == InitExec /\ [][NextExec]_vars /\ WF_vars(ControlLoop)

\* the intents a caller may ask for: the valid ones and one that is unknown
AskedIntents == VALID_INTENTS \cup {"restart"}

\* send_intent's raises before its UPDATE, in the order of the code: the
\* code of the StrategyControlError, "NONE" if the call goes on to write
intent_error(row, intent) ==
    IF intent \notin VALID_INTENTS THEN "INVALID_INTENT"
    ELSE IF invalid_transition(row.status, intent) THEN "INVALID_TRANSITION"
    ELSE IF row.control_intent # NoIntent THEN "INTENT_PENDING"
    ELSE "NONE"

\* send_intent leaving by a StrategyControlError of step 1: nothing is written
SendIntentRefuse(c, n, intent) ==
    /\ sender[c].pc \in {"idle", "returned"}
    /\ intent_error(strat[n], intent) # "NONE"
    /\ sender' = [sender EXCEPT ![c] =
                    [IdleSender EXCEPT !.pc = "returned", !.name = n,
                         !.intent = intent,
                         !.from_status = strat[n].status,
                         !.ret = [NoRet EXCEPT !.status = "error",
                                    !.current_status = intent_error(strat[n], intent)]]]
    /\ UNCHANGED <<strat, statusCache, tick, xclock, restarts>>
    /\ UNCHANGED <<riskVars, brkVars, logVars, reconVars, sigVars, killVars, ackVars, feedVars>>

\* Two operators command one strategy: the senders of SpecExec, both with
\* strategy "A" as their target, and the control loop that acknowledges
Contended       == "A"
ContendedIntents == {"pause", "stop"}

InitIntent ==
    /\ strat = [n \in Strategies |-> StrategyRow("running", 0)]
    /\ statusCache = [n \in Strategies |-> "running"]
    /\ tick = NoTick
    /\ sender = [c \in Senders |-> IdleSender]
    /\ xclock = 0
    /\ restarts = [n \in Strategies |-> 0]
    /\ ctlLog = <<>>
    /\ appendOnly = TRUE
    /\ ReconIdle
    /\ SignalIdle /\ KillIdle /\ AckIdle /\ FeedIdle
    /\ RiskIdle
    /\ BrkIdle

NextIntent ==
    \/ ControlLoop
    \/ \E c \in Senders, i \in ContendedIntents : SendIntentRead(c, Contended, i)
    \/ \E c \in Senders, i \in AskedIntents : SendIntentRefuse(c, Contended, i)
    \/ \E c \in Senders : SendIntentWrite(c)
    \/ \E c \in Senders : WaitForAckPoll(c)
    \/ \E c \in Senders : WaitForAckTimeout(c)
    \/ \E c \in Senders : SendIntentConfirm(c)
    \/ AdvanceXClock

SpecIntent == InitIntent /\ [][NextIntent]_vars

-----------------------------------------------------------------------------
(* The executor's tasks between their awaits (SpecAck): the control loop,  *)
(* the handling of a tick's results and the auto-restart are tasks of one  *)
(* event loop, each with a database session of its own; a task gives way   *)
(* at the await of each statement                                          *)

\* The attributes of a StrategyState object that a session has changed: the
\* flush of the ORM writes the attributes whose value differs from the loaded one
orm_changes(loaded, modified) ==
    [f \in {g \in DOMAIN loaded : modified[g] # loaded[g]} |-> modified[f]]

\* UPDATE strategy_states SET <the changed columns> WHERE the row's key, on
\* the row as committed when the statement runs
flush_to(row, changes) ==
    [f \in DOMAIN row |-> IF f \in DOMAIN changes THEN changes[f] ELSE row[f]]

\* the commit of a session on the table: each row it changed takes its changes
commit_rows(rows, dirty) ==
    [n \in Strategies |->
        IF n \in DOMAIN dirty THEN flush_to(rows[n], dirty[n]) ELSE rows[n]]

\* get_pending_intents: SELECT .. WHERE control_intent IS NOT NULL ORDER BY
\* intent_set_at ASC; rows of equal intent_set_at come in either order
get_pending_intents(rows) ==
    LET P == {n \in Strategies : rows[n].control_intent # NoIntent} IN
      { [i \in DOMAIN q |-> [strategy_name |-> q[i],
                              control_intent |-> rows[q[i]].control_intent,
                              intent_set_at |-> rows[q[i]].intent_set_at]] :
          q \in { s \in [1..Cardinality(P) -> P] :
                    /\ \A i, j \in DOMAIN s : i # j => s[i] # s[j]
                    /\ \A i, j \in DOMAIN s :
                          i < j => rows[s[i]].intent_set_at <= rows[s[j]].intent_set_at } }

NoCur   == [name |-> "none", intent |-> "none", changes |-> <<>>]
\* last and fresh are history: the intent the control loop applied last to
\* each strategy, and the strategies to which it has applied a resume or
\* start with no tick arrived and no other intent applied since
NoRound == [pc |-> "sleep", queue |-> <<>>, cur |-> NoCur, dirty |-> <<>>,
            applied |-> <<>>,
            last |-> [n \in Strategies |-> "none"], fresh |-> {}]
NoApply == [pc |-> "idle", names |-> <<>>, i |-> 0, dirty |-> <<>>]

\* the rows on which the control loop's session holds the lock of a flushed,
\* uncommitted UPDATE
LockedByLoop == DOMAIN ctl.dirty

\* the end of a round's session: the history is kept
end_round(c) == [NoRound EXCEPT !.last = c.last, !.fresh = c.fresh]

\* on_tick up to the await of asyncio.gather, as TickDispatch; a tick that
\* finds no running strategy returns at once
OnTick ==
    /\ ~tick.active
    /\ LET names == running_names(statusCache) IN
          \E r \in GatherResults(names) :
             tick' = IF names = <<>> THEN NoTick
                     ELSE [active |-> TRUE, names |-> names,
                           results |-> [i \in 1..Len(names) |->
                                          [owner |-> names[i], kind |-> r[i]]]]
    /\ strat' = [n \in Strategies |-> [strat[n] EXCEPT !.metrics_of = "none"]]
    /\ ctl' = [ctl EXCEPT !.fresh = {}]
    /\ UNCHANGED <<statusCache, sender, xclock, restarts, app>>
    /\ UNCHANGED <<riskVars, brkVars, logVars, reconVars, sigVars, killVars, feedVars>>

\* on_tick when the gather has returned: the session is opened and the names
\* are read from the cache again, to be zipped with the results
OnTickGathered ==
    /\ tick.active
    /\ app.pc = "idle"
    /\ app' = [pc |-> "pairs", names |-> running_names(statusCache), i |-> 1,
               dirty |-> <<>>]
    /\ UNCHANGED <<strat, statusCache, tick, sender, xclock, restarts, ctl>>
    /\ UNCHANGED <<riskVars, brkVars, logVars, reconVars, sigVars, killVars, feedVars>>

\* on_tick: one pair of the zip. _handle_error or _update_metrics selects the
\* row, changes the loaded object and, for an error, writes the cache and
\* creates the restart task; nothing is flushed before the commit
OnTickPair ==
    /\ app.pc = "pairs"
    /\ app.i <= Min(Len(app.names), Len(tick.results))
    /\ LET n   == app.names[app.i]
           res == tick.results[app.i]
           st0 == [strat |-> strat, cache |-> statusCache, restarts |-> restarts]
           st1 == IF res.kind = "raise" THEN handle_error(st0, n)
                  ELSE update_metrics(st0, n, res)
       IN /\ app' = [app EXCEPT !.i = @ + 1,
                                !.dirty = (n :> orm_changes(strat[n], st1.strat[n])) @@ @]
          /\ statusCache' = st1.cache
          /\ restarts' = st1.restarts
    /\ UNCHANGED <<strat, tick, sender, xclock, ctl>>
    /\ UNCHANGED <<riskVars, brkVars, logVars, reconVars, sigVars, killVars, feedVars>>

\* on_tick: db.commit() after the last pair flushes the changed rows and
\* commits; the UPDATE of a row waits for the lock another session holds on it
OnTickCommit ==
    /\ app.pc = "pairs"
    /\ app.i > Min(Len(app.names), Len(tick.results))
    /\ DOMAIN app.dirty \cap LockedByLoop = {}
    /\ strat' = commit_rows(strat, app.dirty)
    /\ tick' = NoTick
    /\ app' = NoApply
    /\ UNCHANGED <<statusCache, sender, xclock, restarts, ctl>>
    /\ UNCHANGED <<riskVars, brkVars, logVars, reconVars, sigVars, killVars, feedVars>>

\* on_tick: db.commit() raises; the session is closed, its changes are rolled
\* back, and the exception leaves on_tick
OnTickCommitFails ==
    /\ app.pc = "pairs"
    /\ app.i > Min(Len(app.names), Len(tick.results))
    /\ tick' = NoTick
    /\ app' = NoApply
    /\ UNCHANGED <<strat, statusCache, sender, xclock, restarts, ctl>>
    /\ UNCHANGED <<riskVars, brkVars, logVars, reconVars, sigVars, killVars, feedVars>>

\* _control_loop: the sleep is over and get_pending_intents has returned rows
ControlLoopPoll ==
    /\ ctl.pc = "sleep"
    /\ \E q \in get_pending_intents(strat) :
          /\ q # <<>>
          /\ ctl' = [ctl EXCEPT !.pc = "round", !.queue = q]
    /\ UNCHANGED <<strat, statusCache, tick, sender, xclock, restarts, app>>
    /\ UNCHANGED <<riskVars, brkVars, logVars, reconVars, sigVars, killVars, feedVars>>

\* _apply_and_ack up to the await of db.flush(): the row is selected, the
\* loaded object is changed and the cache is written
ApplyAndAck ==
    /\ ctl.pc = "round"
    /\ ctl.queue # <<>>
    /\ LET it == Head(ctl.queue)
           n  == it.strategy_name
           modified == apply_and_ack([strat[n] EXCEPT
                                         !.control_intent = it.control_intent],
                                     xclock)
       IN /\ ctl' = [ctl EXCEPT !.pc = "flush", !.queue = Tail(@),
                                !.cur = [name |-> n, intent |-> it.control_intent,
                                         changes |-> orm_changes(strat[n], modified)],
                                !.last[n] = it.control_intent,
                                !.fresh = IF it.control_intent \in {"resume", "start"}
                                          THEN @ \cup {n} ELSE @ \ {n}]
          /\ statusCache' = [statusCache EXCEPT ![n] = status_map(it.control_intent)]
    /\ UNCHANGED <<strat, tick, sender, xclock, restarts, app>>
    /\ UNCHANGED <<riskVars, brkVars, logVars, reconVars, sigVars, killVars, feedVars>>

\* _apply_and_ack: db.flush() runs the UPDATE, which takes the row's lock
ControlLoopFlush ==
    /\ ctl.pc = "flush"
    /\ ctl' = [ctl EXCEPT !.pc = "round", !.cur = NoCur,
                          !.dirty = (ctl.cur.name :> ctl.cur.changes) @@ @,
                          !.applied = (ctl.cur.name :> ctl.cur.intent) @@ @]
    /\ UNCHANGED <<strat, statusCache, tick, sender, xclock, restarts, app>>
    /\ UNCHANGED <<riskVars, brkVars, logVars, reconVars, sigVars, killVars, feedVars>>

\* _apply_and_ack: db.flush() raises. The exception is caught and logged; the
\* session's transaction is rolled back, every later statement of the round
\* raises before it writes anything and the round ends without a commit
ControlLoopFlushFails ==
    /\ ctl.pc = "flush"
    /\ ctl' = end_round(ctl)
    /\ UNCHANGED <<strat, statusCache, tick, sender, xclock, restarts, app>>
    /\ UNCHANGED <<riskVars, brkVars, logVars, reconVars, sigVars, killVars, feedVars>>

\* _control_loop: db.commit() after the last intent of the round
ControlLoopCommit ==
    /\ ctl.pc = "round"
    /\ ctl.queue = <<>>
    /\ strat' = commit_rows(strat, ctl.dirty)
    /\ ctl' = end_round(ctl)
    /\ UNCHANGED <<statusCache, tick, sender, xclock, restarts, app>>
    /\ UNCHANGED <<riskVars, brkVars, logVars, reconVars, sigVars, killVars, feedVars>>

\* _control_loop: db.commit() raises; the loop logs it and sleeps again
ControlLoopCommitFails ==
    /\ ctl.pc = "round"
    /\ ctl.queue = <<>>
    /\ ctl' = end_round(ctl)
    /\ UNCHANGED <<strat, statusCache, tick, sender, xclock, restarts, app>>
    /\ UNCHANGED <<riskVars, brkVars, logVars, reconVars, sigVars, killVars, feedVars>>

\* _auto_restart after its sleep of 30 s, long after the tick that scheduled
\* it has committed; its UPDATE waits for the lock of a flushed acknowledgement
RestartTask(n) ==
    /\ app.pc = "idle"
    /\ n \notin LockedByLoop
    /\ AutoRestart(n)

\* send_intent(.., wait_for_ack=False) steps 2 to 4: the UPDATE, which waits
\* for the same lock, the check of the row read back, the control log row,
\* the commit and the return of "pending" without a wait
SendIntentQueued(c) ==
    /\ sender[c].pc = "write"
    /\ sender[c].name \notin LockedByLoop
    /\ LET n   == sender[c].name
           row == IF strat[n].control_intent = NoIntent
                  THEN [strat[n] EXCEPT !.control_intent = sender[c].intent,
                                        !.intent_set_at = sender[c].set_at,
                                        !.intent_actor = c,
                                        !.intent_acked_at = NoTime]
                  ELSE strat[n]
       IN IF row.control_intent # sender[c].intent
          THEN /\ sender' = [sender EXCEPT ![c] =
                               [IdleSender EXCEPT !.pc = "returned",
                                    !.ret = [NoRet EXCEPT !.status = "error",
                                               !.current_status = "INTENT_RACE"]]]
               /\ UNCHANGED <<strat, ctlLog>>
          ELSE /\ strat' = [strat EXCEPT ![n] = row]
               /\ ctlLog' = Append(ctlLog, ControlLogRow(n, sender[c].intent,
                                                         sender[c].from_status))
               /\ sender' = [sender EXCEPT ![c] =
                               [IdleSender EXCEPT !.pc = "returned",
                                    !.ret = [NoRet EXCEPT !.status = "pending",
                                               !.current_status = sender[c].from_status]]]
    /\ UNCHANGED <<statusCache, tick, xclock, restarts, appendOnly, ackVars>>
    /\ UNCHANGED <<riskVars, brkVars, reconVars, sigVars, killVars, feedVars>>

\* the commands of the operators during the observed time
AckIntentsOf(c) == IF c = "op1" THEN VALID_INTENTS ELSE {"pause"}

InitAck ==
    /\ \E st \in {s \in [Strategies -> {"running", "stopped"}] : s["B"] = "running"} :
          /\ strat = [n \in Strategies |-> StrategyRow(st[n], 0)]
          /\ statusCache = st
    /\ tick = NoTick
    /\ sender = [c \in Senders |-> IdleSender]
    /\ xclock = 0
    /\ restarts = [n \in Strategies |-> 0]
    /\ ctlLog = <<>>
    /\ appendOnly = FALSE
    /\ ctl = NoRound
    /\ app = NoApply
    /\ ReconIdle
    /\ SignalIdle /\ KillIdle /\ FeedIdle
    /\ RiskIdle
    /\ BrkIdle

NextAck ==
    \/ OnTick
    \/ OnTickGathered
    \/ OnTickPair
    \/ OnTickCommit
    \/ \E n \in Strategies : RestartTask(n)
    \/ ControlLoopPoll
    \/ ApplyAndAck
    \/ ControlLoopFlush
    \/ ControlLoopCommit
    \/ \E c \in Senders : \E n \in TargetsOf(c), i \in AckIntentsOf(c) :
          SendIntentRead(c, n, i)
    \/ \E c \in Senders : SendIntentQueued(c)
    \/ AdvanceXClock

SpecAck == InitAck /\ [][NextAck]_vars

\* The executor's tasks with a failing flush or commit as a possible outcome
\* of each session, one operator pausing, and the tasks scheduled fairly: the
\* event loop runs a task that is ready, the control loop polls for ever
TickTask ==
    OnTickGathered \/ OnTickPair \/ OnTickCommit \/ OnTickCommitFails

ControlTask ==
    \/ ControlLoopPoll
    \/ ApplyAndAck
    \/ ControlLoopFlush
    \/ ControlLoopFlushFails
    \/ ControlLoopCommit
    \/ ControlLoopCommitFails

NextCache ==
    \/ OnTick
    \/ TickTask
    \/ ControlTask
    \/ \E n \in Strategies : RestartTask(n)
    \/ \E n \in TargetsOf("op2"), i \in AckIntentsOf("op2") :
          SendIntentRead("op2", n, i)
    \/ SendIntentQueued("op2")

SpecCacheLive ==
    /\ InitAck
    /\ [][NextCache]_vars
    /\ WF_vars(TickTask)
    /\ WF_vars(ControlTask)
    /\ \A n \in Strategies : WF_vars(RestartTask(n))

-----------------------------------------------------------------------------
(* Properties of the executor and the control service (SpecExec)           *)

\* the positions of strategy n's callback among the results of the tick
OwnResults(n) == {i \in DOMAIN tick.results : tick.results[i].owner = n}
Raised(n) == \E i \in OwnResults(n) : tick.results[i].kind = "raise"

\* C9: when a callback throws on a tick, applying the tick's results sets the
\* thrower's status (row and cache) to error, leaves the status (row and cache)
\* of every other strategy unchanged and writes every other strategy's metrics
\* from its own result, whatever the control loop did during the dispatch.
C9_ExecutorIsolation ==
    [][ (tick.active /\ ~tick'.active /\ \E n \in Strategies : Raised(n)) =>
          \A n \in Strategies :
             IF Raised(n)
             THEN strat'[n].status = "error" /\ statusCache'[n] = "error"
             ELSE /\ strat'[n].status = strat[n].status
                  /\ statusCache'[n] = statusCache[n]
                  /\ OwnResults(n) # {} => strat'[n].metrics_of = n ]_vars

Patched(c) ==
    {i \in unacked_ids(ctlLog, sender[c].name, sender[c].intent) :
        /\ i \in DOMAIN ctlLog'
        /\ ctlLog'[i].acked_at # NoTime
        /\ ctlLog'[i].ack_latency_ms = latency_ms(sender[c])}

\* C12: a strategy_control_log row, once inserted, is never changed or removed
\* by any step of the system.
C12_AppendOnlyLogs ==
    [][ \A i \in DOMAIN ctlLog :
           i \in DOMAIN ctlLog' /\ ctlLog'[i] = ctlLog[i] ]_vars

\* C13: the step of send_intent that follows an acknowledgement observed
\* before the deadline patches the intent's control log row with a non-null
\* acked_at and the ack latency, and returns confirmed with current_status
\* equal to the intent's resulting status.
C13_AckRecordedInLog ==
    [][ \A c \in Senders :
          (sender[c].pc = "acked" /\ sender'[c].pc = "returned") =>
             /\ sender'[c].ret.status = "confirmed"
             /\ sender'[c].ret.current_status = INTENT_RESULT(sender[c].intent)
             /\ Patched(c) # {} ]_vars

C19_IntentSetAndClearedOnlyByProtocol ==
    /\ [](\A n \in Strategies :
            strat[n].control_intent # NoIntent =>
               unacked_ids(ctlLog, n, strat[n].control_intent) # {})
    /\ [][ \A n \in Strategies :
             /\ (strat[n].control_intent = NoIntent
                    /\ strat'[n].control_intent # NoIntent) =>
                   \E c \in Senders :
                      /\ sender[c].pc = "write" /\ sender'[c].pc = "waiting"
                      /\ sender[c].name = n
                      /\ strat'[n].control_intent = sender[c].intent
             /\ (strat[n].control_intent # NoIntent
                    /\ strat'[n].control_intent # strat[n].control_intent) =>
                   /\ strat'[n].control_intent = NoIntent
                   /\ strat'[n].status = status_map(strat[n].control_intent)
                   /\ strat'[n].intent_acked_at = xclock
                   /\ UNCHANGED <<sender, tick, restarts>> ]_vars

\* the intent a sender wrote and still waits for has been cleared by the
\* control loop, on a strategy for which a callback error has been handled
C19_Witness ==
    \E c \in Senders :
       /\ sender[c].pc = "waiting"
       /\ strat[sender[c].name].control_intent = NoIntent
       /\ strat[sender[c].name].intent_acked_at # NoTime
       /\ strat[sender[c].name].error_count > 0

\* the step in which sender c runs the UPDATE of send_intent, the check of the
\* row read back and what follows it
WritesIntent(c) == sender[c].pc = "write" /\ sender'[c].pc # "write"

\* C30: a send_intent call whose UPDATE runs while the strategy has an
\* unacknowledged intent fails with INTENT_RACE (INTENT_PENDING if it read the
\* pending intent in step 1), leaves the row - the pending intent, its actor
\* and its set-time - unchanged and appends no control-log row, whether its
\* intent equals the pending one or differs from it.
C30_OnePendingIntentWriter ==
    [][\A c \in Senders :
          (WritesIntent(c) /\ strat[sender[c].name].control_intent # NoIntent) =>
              /\ sender'[c].pc = "returned"
              /\ sender'[c].ret.status = "error"
              /\ sender'[c].ret.current_status \in {"INTENT_RACE", "INTENT_PENDING"}
              /\ strat' = strat
              /\ ctlLog' = ctlLog]_vars

\* the step in which sender c calls send_intent; the call's arguments are in
\* the sender's record afterwards
CallsSendIntent(c) ==
    /\ sender[c].pc \in {"idle", "returned"}
    /\ sender'[c].name # "none"
    /\ sender'[c] # sender[c]

\* the call of sender c has left send_intent with StrategyControlError code
Refused(c, code) ==
    /\ sender'[c].pc = "returned"
    /\ sender'[c].ret.status = "error"
    /\ sender'[c].ret.current_status = code
    /\ strat' = strat
    /\ ctlLog' = ctlLog

\* C31: a send_intent call with an unknown intent is refused INVALID_INTENT,
\* and one with a known intent that is a pause of a paused or stopped
\* strategy, a stop of a stopped one or a resume or start of a running one is
\* refused INVALID_TRANSITION; a refused call writes no intent and no
\* control-log row, and no call that goes on to write has such arguments.
C31_InvalidIntentsRefused ==
    /\ [][\A c \in Senders :
            CallsSendIntent(c) =>
                LET i   == sender'[c].intent
                    cur == strat[sender'[c].name].status
                IN /\ i \notin {"pause", "resume", "stop", "start"}
                        => Refused(c, "INVALID_INTENT")
                   /\ ( \/ i = "pause" /\ cur \in {"paused", "stopped"}
                        \/ i = "stop" /\ cur = "stopped"
                        \/ i \in {"resume", "start"} /\ cur = "running" )
                        => Refused(c, "INVALID_TRANSITION")]_vars
    /\ [](\A n \in Strategies :
            strat[n].control_intent \in {NoIntent, "pause", "resume", "stop", "start"})

\* C31 witness: a pause of a stopped strategy has been refused
\* INVALID_TRANSITION after earlier commands were logged, and the row has no
\* intent
C31_Witness ==
    \E c \in Senders :
        /\ sender[c].pc = "returned"
        /\ sender[c].intent = "pause" /\ sender[c].from_status = "stopped"
        /\ sender[c].ret.current_status = "INVALID_TRANSITION"
        /\ strat[sender[c].name].control_intent = NoIntent
        /\ Len(ctlLog) >= 1

\* the step that handles the results of a tick
AppliesTick == tick.active /\ ~tick'.active

\* C35: when a callback raised on a tick, handling the tick's results leaves
\* the strategy's row with status error, the exception's message and the
\* exception's traceback, and error_count + 1; a restart is scheduled if
\* auto_restart was true and restart_count < 5, otherwise auto_restart is
\* false and none is scheduled; a restart that runs on a row in error sets it
\* to running with restart_count + 1 and leaves any other row alone.
C35_ErrorHandlingAndRestart ==
    /\ [][ AppliesTick =>
             \A n \in Strategies :
                Raised(n) =>
                   /\ strat'[n].status = "error"
                   /\ strat'[n].error_message = "str(exc)"
                   /\ strat'[n].error_trace = "Traceback"
                   /\ strat'[n].error_count = strat[n].error_count + 1
                   /\ IF strat[n].auto_restart /\ strat[n].restart_count < 5
                      THEN restarts'[n] = restarts[n] + 1
                      ELSE /\ ~strat'[n].auto_restart
                           /\ restarts'[n] = restarts[n] ]_vars
    /\ [][ \A n \in Strategies :
             restarts'[n] < restarts[n] =>
                IF strat[n].status = "error"
                THEN /\ strat'[n].status = "running"
                     /\ strat'[n].restart_count = strat[n].restart_count + 1
                ELSE strat'[n] = strat[n] ]_vars

\* the step of the control loop that applies the next intent of its round,
\* and the step that commits the round
AppliesIntent == ctl.pc = "round" /\ ctl'.pc = "flush"
CommitsRound  == ctl.pc = "round" /\ ctl.queue = <<>> /\ ctl'.pc = "sleep"

\* the status an intent stands for
StatusFor(intent) ==
    CASE intent = "pause" -> "paused"
      [] intent \in {"resume", "start"} -> "running"
      [] intent = "stop" -> "stopped"

\* C32: the control loop applies the intents of a round in ascending
\* order of intent_set_at and writes the cache with the intent's status; the
\* commit of the round leaves each acknowledged row with the status of its
\* intent (paused, running, stopped), control_intent null, intent_acked_at at
\* the time of the acknowledgement, auto_restart false after a stop, and the
\* row's status equal to the cached status.
C32_AckAppliesIntent ==
    /\ [][ AppliesIntent =>
             LET it == Head(ctl.queue) IN
               /\ statusCache'[it.strategy_name] = StatusFor(it.control_intent)
               /\ \A k \in DOMAIN ctl.queue :
                     it.intent_set_at <= ctl.queue[k].intent_set_at ]_vars
    /\ [][ CommitsRound =>
             \A n \in DOMAIN ctl.applied :
                /\ strat'[n].status = StatusFor(ctl.applied[n])
                /\ strat'[n].control_intent = NoIntent
                /\ strat'[n].intent_acked_at # NoTime
                /\ strat'[n].intent_acked_at >= strat[n].intent_set_at
                /\ strat'[n].intent_acked_at <= xclock
                /\ ctl.applied[n] = "stop" => ~strat'[n].auto_restart
                /\ statusCache'[n] = strat'[n].status ]_vars

\* C33: a strategy to which the control loop has applied a pause or stop last
\* is not running in the cache, so no tick dispatched from then on invokes its
\* callback; a strategy to which it has applied a resume or start is running in
\* the cache until the next tick arrives, so that tick invokes it; and a
\* dispatch invokes the callbacks of subscribed strategies whose cached status
\* is running, and no others.
C33_AckBeforeDispatch ==
    /\ [](\A n \in Strategies :
            /\ ctl.last[n] \in {"pause", "stop"} => statusCache[n] # "running"
            /\ n \in ctl.fresh => statusCache[n] = "running")
    /\ [][ (~tick.active /\ tick'.active) =>
             \A n \in Strategies :
                (\E i \in DOMAIN tick'.names : tick'.names[i] = n) <=>
                   (statusCache[n] = "running"
                       /\ \E i \in DOMAIN Subscribed : Subscribed[i] = n) ]_vars

\* C39: whenever the executor's cached status of a strategy differs from the
\* status in its durable row, the cache eventually holds the row's status.
C39_CacheFollowsRow ==
    \A n \in Strategies :
        (statusCache[n] # strat[n].status) ~> (statusCache[n] = strat[n].status)

-----------------------------------------------------------------------------
(* Signals and the orders they cause: the signal test of _update_metrics   *)
(* in workers/strategy_executor.py (SpecSignal)                            *)

\* m.get("signal", "FLAT"): the signals a strategy callback emits
ExitSignals == {"EXIT_LONG"}
Signals     == {"FLAT", "BUY", "SELL"} \cup ExitSignals
\* _prev_signals.get(name) of a name that is not in the dict
NoSignal    == "none"
\* main.py hands a NotificationService to the executor
notifier    == TRUE

\* new_sig in ("BUY", "SELL") or new_sig.startswith("EXIT_")
order_signal(sig) == sig \in {"BUY", "SELL"} \/ sig \in ExitSignals

\* _update_metrics: the number of validate_order calls it makes for a result
\* with signal new_sig when _prev_signals holds old_sig for the strategy and
\* today's TradingSession exists
validations(old_sig, new_sig) ==
    IF notifier /\ old_sig # NoSignal /\ new_sig # old_sig /\ order_signal(new_sig)
    THEN 1 ELSE 0

\* a strategy that has not emitted yet
NoEmission == [last |-> NoSignal, change |-> "none"]

\* _update_metrics for the result of the running strategy n with signal sig:
\* the order branch is taken on the test of the signals, then
\* _prev_signals[name] = new_sig. History: whether sig differs from the
\* signal n emitted before ("first": there was none; "order": a change to
\* BUY, SELL or EXIT_*; "other": any other change), and the calls made since.
UpdateMetrics(n, sig) ==
    /\ LET calls   == validations(prevSignals[n], sig)
           changed == emitted[n].last # sig
       IN /\ riskCalls' = [riskCalls EXCEPT ![n] = IF changed THEN calls
                                                   ELSE @ + calls]
          /\ emitted' = [emitted EXCEPT ![n] =
                            IF ~changed THEN @
                            ELSE [last |-> sig,
                                  change |-> IF emitted[n].last = NoSignal
                                             THEN "first"
                                             ELSE IF order_signal(sig) THEN "order"
                                             ELSE "other"]]
    /\ prevSignals' = [prevSignals EXCEPT ![n] = sig]
    /\ UNCHANGED <<strat, statusCache, tick, sender, xclock, restarts, logVars,
                   reconVars, killVars, ackVars, feedVars>>
    /\ UNCHANGED <<riskVars, brkVars>>

\* StrategyExecutor.__init__ when the process starts again: _prev_signals is
\* an empty dict
ExecutorStart ==
    /\ \E n \in Strategies : prevSignals[n] # NoSignal
    /\ prevSignals' = [n \in Strategies |-> NoSignal]
    /\ UNCHANGED <<emitted, riskCalls>>
    /\ UNCHANGED <<strat, statusCache, tick, sender, xclock, restarts, logVars,
                   reconVars, killVars, ackVars, feedVars>>
    /\ UNCHANGED <<riskVars, brkVars>>

InitSignal ==
    /\ prevSignals = [n \in Strategies |-> NoSignal]
    /\ emitted = [n \in Strategies |-> NoEmission]
    /\ riskCalls = [n \in Strategies |-> 0]
    /\ ExecAtRest /\ LogIdle /\ ReconIdle /\ KillIdle /\ AckIdle /\ FeedIdle
    /\ RiskIdle
    /\ BrkIdle

NextSignal ==
    \/ \E n \in Strategies, sig \in Signals : UpdateMetrics(n, sig)
    \/ ExecutorStart

SpecSignal == InitSignal /\ [][NextSignal]_vars

-----------------------------------------------------------------------------
(* Properties of the signal test (SpecSignal)                              *)

\* C25: for every strategy, since its emitted signal last changed, the risk
\* engine has been called exactly once if that change was from another signal
\* to BUY, SELL or EXIT_*, and not at all otherwise (so a signal that stays
\* the same on later ticks causes no further call).
C25_OneValidationPerSignalChange ==
    \A n \in Strategies :
        riskCalls[n] = IF emitted[n].change = "order" THEN 1 ELSE 0

-----------------------------------------------------------------------------
(* The feed worker: connection, reconnect and backoff (SpecFeed)           *)
(*                                                                         *)
(* feed holds FeedWorker's fields (running, connected, reconnect_count,    *)
(* consecutive_failures), the local delay_idx of _run and its position,    *)
(* the state of the Fyers socket, the tasks created by the socket's        *)
(* callbacks, the cache key tradedeck:ws_connected and the is_connected    *)
(* column of the feed_heartbeat row.  History: drops counts the            *)
(* connections lost (failed attempts and closed sockets), slept is the     *)
(* delay _run slept before the attempt at hand (0: none).                  *)

\* Connections lost in one behaviour
MaxDrops == 8

\* Tasks of the socket's callbacks waiting for the event loop
MaxTasks == 2

RECONNECT_DELAYS == <<1, 2, 4, 8, 16, 30>>

\* FeedWorker after __init__ and start(): _run is about to connect
FeedStarted ==
    [pc |-> "connect", running |-> TRUE, connected |-> FALSE,
     reconnect_count |-> 0, consecutive_failures |-> 0, delay_idx |-> 0,
     sock |-> "none", tasks |-> <<>>, key |-> FALSE, row |-> FALSE,
     drops |-> 0, slept |-> 0]

\* _mark_connected / _mark_disconnected: the field, the cache key, the row
mark_connected(f) ==
    [f EXCEPT !.connected = TRUE, !.key = TRUE, !.row = TRUE]

mark_disconnected(f) ==
    [f EXCEPT !.connected = FALSE, !.key = FALSE, !.row = FALSE]

\* _run: _connect_and_receive raises (the socket cannot be built or
\* connected); the except clause counts the failure and goes on to mark
ConnectFails ==
    /\ feed.pc = "connect"
    /\ feed.drops < MaxDrops
    /\ feed' = [feed EXCEPT !.pc = "marking",
                            !.consecutive_failures = 0 + 1,
                            !.reconnect_count = @ + 1,
                            !.drops = @ + 1]
    /\ UNCHANGED <<ticks, strat, statusCache, tick, sender, xclock, restarts,
                   logVars, reconVars, sigVars, killVars, ackVars>>
    /\ UNCHANGED <<riskVars, brkVars>>

\* _run: await self._mark_disconnected(), then the delay is chosen and slept
MarkAndBackoff ==
    /\ feed.pc = "marking"
    /\ LET delay == RECONNECT_DELAYS[Min(feed.delay_idx, Len(RECONNECT_DELAYS) - 1) + 1]
       IN feed' = [mark_disconnected(feed) EXCEPT
                      !.pc = "backoff", !.delay_idx = @ + 1, !.slept = delay]
    /\ UNCHANGED <<ticks, strat, statusCache, tick, sender, xclock, restarts,
                   logVars, reconVars, sigVars, killVars, ackVars>>
    /\ UNCHANGED <<riskVars, brkVars>>

\* _run: the sleep is over, the loop tests _running and connects again
BackoffDone ==
    /\ feed.pc = "backoff"
    /\ feed' = [feed EXCEPT !.pc = "connect"]
    /\ UNCHANGED <<ticks, strat, statusCache, tick, sender, xclock, restarts,
                   logVars, reconVars, sigVars, killVars, ackVars>>
    /\ UNCHANGED <<riskVars, brkVars>>

\* _connect_and_receive: the socket is built and connect() returns; the
\* coroutine then sleeps second by second while _running
ConnectOk ==
    /\ feed.pc = "connect"
    /\ feed' = [feed EXCEPT !.pc = "receiving", !.consecutive_failures = 0,
                            !.sock = "connecting", !.slept = 0]
    /\ UNCHANGED <<ticks, strat, statusCache, tick, sender, xclock, restarts,
                   logVars, reconVars, sigVars, killVars, ackVars>>
    /\ UNCHANGED <<riskVars, brkVars>>

\* _on_ws_open
WsOpen ==
    /\ feed.sock = "connecting"
    /\ Len(feed.tasks) < MaxTasks
    /\ feed' = [feed EXCEPT !.sock = "open", !.connected = TRUE,
                            !.tasks = Append(@, "mark_connected")]
    /\ UNCHANGED <<ticks, strat, statusCache, tick, sender, xclock, restarts,
                   logVars, reconVars, sigVars, killVars, ackVars>>
    /\ UNCHANGED <<riskVars, brkVars>>

\* _on_ws_close: the open socket is lost
WsClose ==
    /\ feed.sock = "open"
    /\ feed.drops < MaxDrops
    /\ Len(feed.tasks) < MaxTasks
    /\ feed' = [feed EXCEPT !.sock = "closed", !.connected = FALSE,
                            !.tasks = Append(@, "mark_disconnected"),
                            !.drops = @ + 1]
    /\ UNCHANGED <<ticks, strat, statusCache, tick, sender, xclock, restarts,
                   logVars, reconVars, sigVars, killVars, ackVars>>
    /\ UNCHANGED <<riskVars, brkVars>>

\* FyersDataSocket(reconnect=True): the library connects the closed socket
\* again by itself
WsReconnect ==
    /\ feed.sock = "closed"
    /\ feed' = [feed EXCEPT !.sock = "connecting"]
    /\ UNCHANGED <<ticks, strat, statusCache, tick, sender, xclock, restarts,
                   logVars, reconVars, sigVars, killVars, ackVars>>
    /\ UNCHANGED <<riskVars, brkVars>>

\* The event loop runs the oldest task created by a socket callback
RunMarkTask ==
    /\ feed.tasks # <<>>
    /\ LET f == [feed EXCEPT !.tasks = Tail(@)]
       IN feed' = IF Head(feed.tasks) = "mark_connected"
                  THEN mark_connected(f) ELSE mark_disconnected(f)
    /\ UNCHANGED <<ticks, strat, statusCache, tick, sender, xclock, restarts,
                   logVars, reconVars, sigVars, killVars, ackVars>>
    /\ UNCHANGED <<riskVars, brkVars>>

\* stop(): _running = False, the task of _run is cancelled at its await and
\* leaves its loop, the feed is marked disconnected.  The socket is not closed
FeedStop ==
    /\ feed.running
    /\ feed' = [mark_disconnected(feed) EXCEPT !.running = FALSE, !.pc = "stopped"]
    /\ UNCHANGED <<ticks, strat, statusCache, tick, sender, xclock, restarts,
                   logVars, reconVars, sigVars, killVars, ackVars>>
    /\ UNCHANGED <<riskVars, brkVars>>

InitFeed ==
    /\ feed = FeedStarted
    /\ ticks = <<>>
    /\ ExecAtRest /\ LogIdle /\ ReconIdle /\ SignalIdle /\ KillIdle /\ AckIdle
    /\ RiskIdle
    /\ BrkIdle

NextFeed ==
    \/ ConnectFails
    \/ MarkAndBackoff
    \/ BackoffDone
    \/ ConnectOk
    \/ WsOpen
    \/ WsClose
    \/ WsReconnect
    \/ RunMarkTask
    \/ FeedStop

SpecFeed == InitFeed /\ [][NextFeed]_vars

-----------------------------------------------------------------------------
(* Properties of the feed worker (SpecFeed)                                *)

\* A connection is lost in this step
Disconnects == feed'.drops = feed.drops + 1

\* _run has dealt with a lost connection and waits to reconnect
Waits == feed.pc = "marking" /\ feed'.pc = "backoff"

\* _run starts a connection attempt after a lost connection
Reattempts ==
    feed.pc = "connect" /\ feed'.pc \in {"marking", "receiving"} /\ feed.drops > 0

\* The wait before the n-th reattempt in a row
BackoffOf(n) == IF n <= 5 THEN 2 ^ (n - 1) ELSE 30

\* C38: every lost connection increments the reconnect counter once; when the
\* worker has dealt with it (it waits to reconnect, or the task of the close
\* callback has run) the cache key is cleared and the durable row says
\* disconnected; the worker waits 1, 2, 4, 8, 16, 30, 30, .. seconds before
\* the n-th reconnect attempt in a row, never more than 30; and while the
\* worker runs the sequence does not start again.
C38_ReconnectBackoff ==
    /\ [][ Disconnects => feed'.reconnect_count = feed.reconnect_count + 1 ]_vars
    /\ [][ Waits => ~feed'.key /\ ~feed'.row /\ ~feed'.connected ]_vars
    /\ [](feed.sock = "closed" /\ feed.tasks = <<>> => ~feed.key /\ ~feed.row)
    /\ [][ Reattempts => feed.slept = BackoffOf(feed.drops) /\ feed.slept <= 30 ]_vars
    /\ [][ feed.running => feed'.delay_idx >= feed.delay_idx ]_vars

-----------------------------------------------------------------------------
(* The per-tick tasks (SpecTicks)                                          *)
(*                                                                         *)
(* _on_ws_message creates one task per tick; the event loop runs the tasks *)
(* that are ready in the order in which they became ready, each up to its  *)
(* next await.  ticks holds the number of ticks delivered, the ready       *)
(* queue, the tick buffer of the symbol (_tick_buffers[symbol]), the       *)
(* callbacks that have started and await their own I/O and, as history,    *)
(* the invocations: strategy, tick, and the newest tick in the buffer      *)
(* handed to the callback at that moment.  The worker of main.py has no    *)
(* cache client, so FeedWorker._on_tick reaches the handler without an     *)
(* await.                                                                  *)

\* Ticks delivered in one behaviour
MaxTicks == 3

NoTicks ==
    [arrived |-> 0, ready |-> <<>>, buf |-> <<>>, running |-> {}, calls |-> <<>>]

\* _on_ws_message: asyncio.create_task(self._on_tick(message))
TickArrives ==
    /\ ticks.arrived < MaxTicks
    /\ ticks' = [ticks EXCEPT !.arrived = @ + 1,
                              !.ready = Append(@, [kind |-> "on_tick",
                                                   t |-> ticks.arrived + 1,
                                                   n |-> "none"])]
    /\ UNCHANGED <<feed, strat, statusCache, tick, sender, xclock, restarts,
                   logVars, reconVars, sigVars, killVars, ackVars>>
    /\ UNCHANGED <<riskVars, brkVars>>

\* FeedWorker._on_tick up to "await handler(tick)", then on_tick up to its
\* gather: the tick is appended to the buffer and one _run_safe task per
\* running subscriber is made ready
FeedOnTick ==
    /\ ticks.ready # <<>>
    /\ Head(ticks.ready).kind = "on_tick"
    /\ LET t     == Head(ticks.ready).t
           names == running_names(statusCache)
       IN ticks' = [ticks EXCEPT
                       !.buf = Append(@, t),
                       !.ready = Tail(@) \o [i \in 1..Len(names) |->
                                               [kind |-> "run_safe", t |-> t,
                                                n |-> names[i]]]]
    /\ UNCHANGED <<feed, strat, statusCache, tick, sender, xclock, restarts,
                   logVars, reconVars, sigVars, killVars, ackVars>>
    /\ UNCHANGED <<riskVars, brkVars>>

\* _run_safe: the callback is invoked with the tick and the shared buffer and
\* runs up to its first await
CallbackStarts ==
    /\ ticks.ready # <<>>
    /\ Head(ticks.ready).kind = "run_safe"
    /\ LET c == Head(ticks.ready)
       IN ticks' = [ticks EXCEPT
                       !.ready = Tail(@),
                       !.running = @ \cup {[n |-> c.n, t |-> c.t]},
                       !.calls = Append(@, [n |-> c.n, t |-> c.t,
                                            last |-> ticks.buf[Len(ticks.buf)]])]
    /\ UNCHANGED <<feed, strat, statusCache, tick, sender, xclock, restarts,
                   logVars, reconVars, sigVars, killVars, ackVars>>
    /\ UNCHANGED <<riskVars, brkVars>>

\* A started callback returns, its I/O done
CallbackReturns ==
    /\ \E c \in ticks.running : ticks' = [ticks EXCEPT !.running = @ \ {c}]
    /\ UNCHANGED <<feed, strat, statusCache, tick, sender, xclock, restarts,
                   logVars, reconVars, sigVars, killVars, ackVars>>
    /\ UNCHANGED <<riskVars, brkVars>>

InitTicks ==
    /\ \E st \in {s \in [Strategies -> {"running", "stopped"}] : s["B"] = "running"} :
          /\ strat = [n \in Strategies |-> StrategyRow(st[n], 0)]
          /\ statusCache = st
    /\ tick = NoTick
    /\ sender = [c \in Senders |-> IdleSender]
    /\ xclock = 0
    /\ restarts = [n \in Strategies |-> 0]
    /\ ctlLog = <<>>
    /\ appendOnly = FALSE
    /\ ticks = NoTicks
    /\ feed = <<>>
    /\ ReconIdle
    /\ SignalIdle /\ KillIdle /\ AckIdle
    /\ RiskIdle
    /\ BrkIdle

NextTicks ==
    \/ TickArrives
    \/ FeedOnTick
    \/ CallbackStarts
    \/ CallbackReturns

SpecTicks == InitTicks /\ [][NextTicks]_vars

-----------------------------------------------------------------------------
(* Properties of the per-tick tasks (SpecTicks)                            *)

\* C34: every callback is invoked with a buffer whose newest tick is the tick
\* it is invoked for, and the invocations of one strategy are in the order in
\* which the ticks arrived.
C34_TicksInArrivalOrder ==
    \A i \in DOMAIN ticks.calls :
        /\ ticks.calls[i].last = ticks.calls[i].t
        /\ \A j \in DOMAIN ticks.calls :
              (i < j /\ ticks.calls[i].n = ticks.calls[j].n)
                  => ticks.calls[i].t < ticks.calls[j].t

====
